---- MODULE Spec2Model ----
(***************************************************************************)
(* Model of the cap-snowflake adapter: the CQN-to-SQL translator           *)
(* (src/cqn/filters.ts, src/cqn/toSQL.ts, src/cqn/orderby.ts,              *)
(* src/cqn/pagination.ts, src/identifiers.ts), the temporal conditions of  *)
(* src/features/temporal.ts, the result reshaper, the read handler and the  *)
(* transaction handling of SnowflakeService, the error utilities, the      *)
(* retry loop of the SQL API client and the connection handling of the SDK *)
(* client (src/client/sdk.ts).                                             *)
(*                                                                         *)
(* Text is modelled as a sequence of pieces.  A piece that comes from a    *)
(* string literal of the source ("LEFT JOIN ", "?", ", ") is one string; a *)
(* piece that comes from data (an identifier) is one character, so that    *)
(* startsWith, substring and quoting work on characters as in the source.  *)
(***************************************************************************)
EXTENDS Integers, Sequences, FiniteSets, TLC

(***************************************************************************)
(* State                                                                   *)
(***************************************************************************)
\* a call of translateFilter
VARIABLES
  fstate,   \* "idle", or "done" after a call of translateFilter
  fxpr,     \* the token sequence passed to translateFilter
  fsink,    \* the parameter sink as passed
  fout,     \* the text returned and the sink after the call
  fthrown   \* TRUE when the call threw

filterVars == <<fstate, fxpr, fsink, fout, fthrown>>

\* calls of cqnToSQL and of restructureExpands
VARIABLES
  clog,        \* the calls of cqnToSQL so far: the tree and what came back
  joinCounter, \* the join counter as the last call of
               \* processColumnsWithExpand left it
  reshapeIn,   \* the rows passed to restructureExpands, <<>> before the call
  reshapeOut   \* the rows it returned

compileVars == <<clog, joinCounter, reshapeIn, reshapeOut>>

\* a call of SnowflakeSQLAPIClient.execute
VARIABLES
  apiPc,       \* "idle", "try" (top of the loop body), "sleep", "returned", "thrown"
  attempt,     \* the loop variable of execute
  requests,    \* the requests made by the current call of execute
  delays,      \* the delays slept by the current call, in order
  lastError,   \* the error caught last by the current call
  apiOutcome,  \* the error execute threw, NoError when it has not thrown
  answered     \* how makeRequest ended last in the current call: "none",
               \* "data", "empty" (a response without data) or "failed"

apiVars == <<apiPc, attempt, requests, delays, lastError, apiOutcome, answered>>

\* the transaction state of SnowflakeService
VARIABLES
  mode,          \* which client init created
  inTransaction, \* the field of the service
  sent,          \* the statements forwarded to the driver, in order
  waiting,       \* the operations of the calls that await the driver, in
                 \* the order in which they forwarded their statements
  lastCall,      \* the call that completed last: operation, whether it
                 \* threw, the level it logged at ("" for no log) and
                 \* whether it forwarded a statement
  session        \* the session of the connection at the database

txVars == <<mode, inTransaction, sent, waiting, lastCall, session>>

\* a call of one of the exported functions generateMerge,
\* addTemporalConditions and quoteIdentifier
VARIABLES
  ufn,     \* "idle", or the name of the function called
  uargs,   \* the arguments of the call
  uout,    \* what the call returned
  uagain   \* what quoteIdentifier returned for the name it had returned

utilVars == <<ufn, uargs, uout, uagain>>

\* a call of SnowflakeService.read
VARIABLES
  rd   \* the call of read that completed last: the query, the rows the
       \* database holds for it, the statements executed and what came back

readVars == <<rd>>

\* the SDK client (client/sdk.ts) and the calls in flight on it
VARIABLES
  connection,  \* this.connection is set
  connecting,  \* this.connecting is set
  driver,      \* the connection of the driver: "none", "pending", "connected"
  callers      \* per caller: the method it called and where it stands

sdkVars == <<connection, connecting, driver, callers>>

(***************************************************************************)
(* Generic helpers on sequences                                            *)
(***************************************************************************)
RECURSIVE Join(_, _)
\* Array.prototype.join: the elements of the sequence of texts ts,
\* separated by the text sep
Join(ts, sep) ==
  IF ts = <<>> THEN <<>>
  ELSE IF Len(ts) = 1 THEN ts[1]
  ELSE ts[1] \o sep \o Join(Tail(ts), sep)

RECURSIVE Concat(_)
\* concatenation of a sequence of sequences
Concat(ss) ==
  IF ss = <<>> THEN <<>> ELSE ss[1] \o Concat(Tail(ss))

\* String.prototype.startsWith on character sequences
StartsWith(s, p) ==
  /\ Len(p) <= Len(s)
  /\ SubSeq(s, 1, Len(p)) = p

\* String.prototype.substring(n) on character sequences (n is 0-based)
Substring(s, n) == SubSeq(s, n + 1, Len(s))

\* the sequence s without its i-th element
RemoveAt(s, i) == SubSeq(s, 1, i - 1) \o SubSeq(s, i + 1, Len(s))

\* number of occurrences of the piece x in the text t
Count(t, x) == Cardinality({i \in 1..Len(t) : t[i] = x})

\* the sequence of the elements of t that are in the set S, in order
RECURSIVE Filter(_, _)
Filter(t, S) ==
  IF t = <<>> THEN <<>>
  ELSE IF t[1] \in S THEN <<t[1]>> \o Filter(Tail(t), S)
  ELSE Filter(Tail(t), S)

(***************************************************************************)
(* Identifier handling (identifiers.ts)                                    *)
(***************************************************************************)
RESERVED_WORDS ==
  {
    <<"S","E","L","E","C","T">>, <<"F","R","O","M">>, <<"W","H","E","R","E">>,
    <<"I","N","S","E","R","T">>, <<"U","P","D","A","T","E">>, <<"D","E","L","E","T","E">>,
    <<"C","R","E","A","T","E">>, <<"D","R","O","P">>, <<"T","A","B","L","E">>,
    <<"V","I","E","W">>, <<"I","N","D","E","X">>, <<"A","L","T","E","R">>,
    <<"A","D","D">>, <<"C","O","L","U","M","N">>, <<"P","R","I","M","A","R","Y">>,
    <<"K","E","Y">>, <<"F","O","R","E","I","G","N">>, <<"R","E","F","E","R","E","N","C","E","S">>,
    <<"C","O","N","S","T","R","A","I","N","T">>, <<"U","N","I","Q","U","E">>, <<"N","O","T">>,
    <<"N","U","L","L">>, <<"D","E","F","A","U","L","T">>, <<"C","H","E","C","K">>,
    <<"A","N","D">>, <<"O","R">>, <<"I","N">>,
    <<"B","E","T","W","E","E","N">>, <<"L","I","K","E">>, <<"I","S">>,
    <<"A","S">>, <<"O","N">>, <<"J","O","I","N">>,
    <<"L","E","F","T">>, <<"R","I","G","H","T">>, <<"I","N","N","E","R">>,
    <<"O","U","T","E","R">>, <<"F","U","L","L">>, <<"C","R","O","S","S">>,
    <<"U","N","I","O","N">>, <<"I","N","T","E","R","S","E","C","T">>, <<"E","X","C","E","P","T">>,
    <<"O","R","D","E","R">>, <<"B","Y">>, <<"G","R","O","U","P">>,
    <<"H","A","V","I","N","G">>, <<"L","I","M","I","T">>, <<"O","F","F","S","E","T">>,
    <<"M","E","R","G","E">>, <<"I","N","T","O">>, <<"U","S","I","N","G">>,
    <<"W","H","E","N">>, <<"M","A","T","C","H","E","D">>, <<"T","H","E","N">>,
    <<"V","A","L","U","E","S">>, <<"S","E","T">>
  }

UpperOf ==
  ("a" :> "A") @@ ("b" :> "B") @@ ("c" :> "C") @@ ("d" :> "D") @@ ("e" :>
  "E") @@ ("f" :> "F") @@ ("g" :> "G") @@ ("h" :> "H") @@ ("i" :> "I") @@
  ("j" :> "J") @@ ("k" :> "K") @@ ("l" :> "L") @@ ("m" :> "M") @@ ("n" :>
  "N") @@ ("o" :> "O") @@ ("p" :> "P") @@ ("q" :> "Q") @@ ("r" :> "R") @@
  ("s" :> "S") @@ ("t" :> "T") @@ ("u" :> "U") @@ ("v" :> "V") @@ ("w" :>
  "W") @@ ("x" :> "X") @@ ("y" :> "Y") @@ ("z" :> "Z")

UpperLetters ==
  {"A", "B", "C", "D", "E", "F", "G", "H", "I", "J", "K", "L", "M", "N",
  "O", "P", "Q", "R", "S", "T", "U", "V", "W", "X", "Y", "Z"}

Digits == {"0", "1", "2", "3", "4", "5", "6", "7", "8", "9"}

\* String.prototype.toUpperCase, character by character
ToUpperCase(s) ==
  [i \in 1..Len(s) |-> IF s[i] \in DOMAIN UpperOf THEN UpperOf[s[i]] ELSE s[i]]

\* identifier.startsWith('"') && identifier.endsWith('"')
AlreadyQuoted(s) == Len(s) >= 1 /\ s[1] = "\"" /\ s[Len(s)] = "\""

\* /^[A-Z_][A-Z0-9_]*$/.test(identifier)
MatchesPlainPattern(s) ==
  /\ Len(s) >= 1
  /\ s[1] \in UpperLetters \cup {"_"}
  /\ \A i \in 2..Len(s) : s[i] \in UpperLetters \cup Digits \cup {"_"}

\* needsQuoting without the test for reserved words
needsQuoting_noReserved(identifier) ==
  IF identifier = <<>> THEN FALSE
  ELSE IF AlreadyQuoted(identifier) THEN FALSE
  ELSE IF identifier # ToUpperCase(identifier) THEN TRUE
  ELSE IF ~MatchesPlainPattern(identifier) THEN TRUE
  ELSE FALSE

needsQuoting(identifier) ==
  IF identifier = <<>> THEN FALSE
  ELSE IF AlreadyQuoted(identifier) THEN FALSE
  ELSE IF ToUpperCase(identifier) \in RESERVED_WORDS THEN TRUE
  ELSE IF identifier # ToUpperCase(identifier) THEN TRUE
  ELSE IF ~MatchesPlainPattern(identifier) THEN TRUE
  ELSE FALSE

RECURSIVE EscapeQuotes(_)
\* identifier.replace(/"/g, '""')
EscapeQuotes(s) ==
  IF s = <<>> THEN <<>>
  ELSE (IF s[1] = "\"" THEN <<"\"", "\"">> ELSE <<s[1]>>) \o EscapeQuotes(Tail(s))

\* quoteIdentifier without the test for a name that is already quoted
quoteIdentifier_requotes(identifier) ==
  IF identifier = <<>> THEN identifier
  ELSE IF \/ ToUpperCase(identifier) \in RESERVED_WORDS
          \/ identifier # ToUpperCase(identifier)
          \/ ~MatchesPlainPattern(identifier)
  THEN <<"\"">> \o EscapeQuotes(identifier) \o <<"\"">>
  ELSE identifier

quoteIdentifier(identifier) ==
  IF identifier = <<>> THEN identifier
  ELSE IF AlreadyQuoted(identifier) THEN identifier
  ELSE IF needsQuoting(identifier) THEN <<"\"">> \o EscapeQuotes(identifier) \o <<"\"">>
  ELSE identifier

(***************************************************************************)
(* Values bound as parameters.  A value is a tagged record; s is its       *)
(* printed form (String(v)) as characters.  Value characters are disjoint  *)
(* from the characters of identifiers, operators and function names.       *)
(***************************************************************************)
Null == [t |-> "null", s |-> <<"n", "u", "l", "l">>]

Undefined == [t |-> "undefined", s |-> <<>>]

StrVal(cs) == [t |-> "str", s |-> cs]

NumVal(cs) == [t |-> "num", s |-> cs]

\* the non-null literal values of the model
Values == {StrVal(<<"x">>), NumVal(<<"7">>)}

\* the characters that occur in printed non-null values
ValueChars == {"x", "7"}

\* params.ts: placeholder()
placeholder == <<"?">>

(***************************************************************************)
(* Predicate compiler (cqn/filters.ts)                                     *)
(*                                                                         *)
(* A token is a record with a kind: "op" (a string element), "ref",        *)
(* "val", "func", "xpr" or "list".  A compiler operator takes the          *)
(* parameter sink and returns the SQL text with the sink after its         *)
(* pushes, since the source mutates the sink in place.                     *)
(***************************************************************************)
OpTok(o) == [kind |-> "op", op |-> o]

RefTok(r) == [kind |-> "ref", ref |-> r]

ValTok(v) == [kind |-> "val", val |-> v]

FuncTok(f, a) == [kind |-> "func", func |-> f, args |-> a]

XprTok(x) == [kind |-> "xpr", xpr |-> x]

ListTok(l) == [kind |-> "list", list |-> l]

UpperOps ==
  {<<"A", "N", "D">>, <<"O", "R">>, <<"N", "O", "T">>, <<"L", "I", "K", "E">>, <<"I", "N">>, <<"B", "E", "T", "W", "E", "E", "N">>, <<"I", "S">>}

translateOperator(op) ==
  IF ToUpperCase(op) \in UpperOps THEN ToUpperCase(op) ELSE op

translateRef(ref) ==
  IF Len(ref) = 1 THEN quoteIdentifier(ref[1])
  ELSE Join([i \in 1..Len(ref) |-> quoteIdentifier(ref[i])], <<".">>)

translateVal(val, params) ==
  IF val = Null THEN [sql |-> <<"NULL">>, params |-> params]
  ELSE [sql |-> placeholder, params |-> Append(params, val)]

FN_LOWER == <<"L", "O", "W", "E", "R">>

FN_UPPER == <<"U", "P", "P", "E", "R">>

FN_LENGTH == <<"L", "E", "N", "G", "T", "H">>

FN_SUBSTRING == <<"S", "U", "B", "S", "T", "R", "I", "N", "G">>

FN_CONTAINS == <<"C", "O", "N", "T", "A", "I", "N", "S">>

FN_STARTSWITH == <<"S", "T", "A", "R", "T", "S", "W", "I", "T", "H">>

FN_ENDSWITH == <<"E", "N", "D", "S", "W", "I", "T", "H">>

FN_YEAR == <<"Y", "E", "A", "R">>

FN_MONTH == <<"M", "O", "N", "T", "H">>

FN_DAY == <<"D", "A", "Y">>

\* (args[1] as any).val: the val field of the argument, undefined when the
\* argument is not a literal token
ValOf(arg) == IF arg.kind = "val" THEN arg.val ELSE Undefined

\* the template literals `%${v}%`, `${v}%` and `%${v}`
Wildcarded(funcName, v) ==
  IF funcName = FN_CONTAINS THEN StrVal(<<"%">> \o v.s \o <<"%">>)
  ELSE IF funcName = FN_STARTSWITH THEN StrVal(v.s \o <<"%">>)
  ELSE StrVal(<<"%">> \o v.s)

RECURSIVE translateExpression(_, _)
RECURSIVE translateFunc(_, _)
RECURSIVE translateList(_, _)
RECURSIVE TranslateParts(_, _)
RECURSIVE TranslateEach(_, _)

\* one iteration of the loop of translateExpression: the part pushed for
\* the element and the sink afterwards
TranslateElement(element, params) ==
  CASE element.kind = "op" ->
         [sql |-> translateOperator(element.op), params |-> params]
    [] element.kind = "ref" ->
         [sql |-> translateRef(element.ref), params |-> params]
    [] element.kind = "val" -> translateVal(element.val, params)
    [] element.kind = "func" -> translateFunc(element, params)
    [] element.kind = "xpr" ->
         LET r == translateExpression(element.xpr, params)
         IN  [sql |-> <<"(">> \o r.sql \o <<")">>, params |-> r.params]
    [] element.kind = "list" -> translateList(element.list, params)

\* the loop of translateExpression: the parts, left to right
TranslateParts(xpr, params) ==
  IF xpr = <<>> THEN [parts |-> <<>>, params |-> params]
  ELSE LET h == TranslateElement(xpr[1], params)
           r == TranslateParts(Tail(xpr), h.params)
       IN  [parts |-> <<h.sql>> \o r.parts, params |-> r.params]

translateExpression(xpr, params) ==
  LET r == TranslateParts(xpr, params)
  IN  [sql |-> Join(r.parts, <<" ">>), params |-> r.params]

\* args.map(arg => translateExpression([arg], params)): each argument
\* compiled on its own, left to right
TranslateEach(args, params) ==
  IF args = <<>> THEN [parts |-> <<>>, params |-> params]
  ELSE LET h == translateExpression(<<args[1]>>, params)
           r == TranslateEach(Tail(args), h.params)
       IN  [parts |-> <<h.sql>> \o r.parts, params |-> r.params]

\* `${funcName}(${args.map(...).join(', ')})`
GenericCall(funcName, args, params) ==
  LET r == TranslateEach(args, params)
  IN  [sql |-> funcName \o <<"(">> \o Join(r.parts, <<", ">>) \o <<")">>,
       params |-> r.params]

translateFunc(func, params) ==
  LET funcName == ToUpperCase(func.func)
      args == func.args
  IN
  IF funcName \in {FN_LOWER, FN_UPPER, FN_LENGTH, FN_YEAR, FN_MONTH, FN_DAY}
  THEN LET r == translateExpression(args, params)
       IN  [sql |-> funcName \o <<"(">> \o r.sql \o <<")">>, params |-> r.params]
  ELSE IF funcName = FN_SUBSTRING /\ Len(args) >= 2
  THEN LET str == translateExpression(<<args[1]>>, params)
           start == translateExpression(<<args[2]>>, str.params)
           len == IF Len(args) >= 3
                  THEN translateExpression(<<args[3]>>, start.params)
                  ELSE [sql |-> <<>>, params |-> start.params]
       IN  IF len.sql # <<>>
           THEN [sql |-> <<"SUBSTRING(">> \o str.sql \o <<", ">> \o start.sql
                           \o <<", ">> \o len.sql \o <<")">>,
                 params |-> len.params]
           ELSE [sql |-> <<"SUBSTRING(">> \o str.sql \o <<", ">> \o start.sql
                           \o <<")">>,
                 params |-> len.params]
  ELSE IF funcName \in {FN_CONTAINS, FN_STARTSWITH, FN_ENDSWITH} /\ Len(args) = 2
  THEN LET str == translateExpression(<<args[1]>>, params)
           v == ValOf(args[2])
       IN  IF v # Undefined
           THEN [sql |-> str.sql \o <<" LIKE ">> \o placeholder,
                 params |-> Append(str.params, Wildcarded(funcName, v))]
           \* break: the fallback compiles every argument again, on the sink
           \* that already holds the pushes of the first argument
           ELSE GenericCall(funcName, args, str.params)
  ELSE GenericCall(funcName, args, params)

\* list.map(item => ...): each item, left to right
RECURSIVE TranslateItems(_, _)
TranslateItems(list, params) ==
  IF list = <<>> THEN [parts |-> <<>>, params |-> params]
  ELSE LET item == list[1]
           h == IF ValOf(item) # Undefined
                THEN [sql |-> placeholder, params |-> Append(params, item.val)]
                ELSE translateExpression(<<item>>, params)
           r == TranslateItems(Tail(list), h.params)
       IN  [parts |-> <<h.sql>> \o r.parts, params |-> r.params]

translateList(list, params) ==
  LET r == TranslateItems(list, params)
  IN  [sql |-> <<"(">> \o Join(r.parts, <<", ">>) \o <<")">>, params |-> r.params]

translateFilter(xpr, params) ==
  IF xpr = <<>> THEN [sql |-> <<>>, params |-> params]
  ELSE translateExpression(xpr, params)

(***************************************************************************)
(* Inputs of the predicate compiler                                        *)
(***************************************************************************)
MaxArgs == 3

MaxListLen == 2

SeqsUpTo(S, n) == UNION {[1..k -> S] : k \in 0..n}

\* column names: one that needs quoting and one that does not
N_p == <<"p">>

N_A == <<"A">>

LeafTokens ==
  {RefTok(<<N_p>>), RefTok(<<N_A, N_p>>), RefTok(<<>>)}
  \cup {ValTok(v) : v \in Values \cup {Null}}
  \cup {OpTok(<<"=">>), OpTok(<<"i", "n">>), OpTok(<<"<", "=">>)}

ArgTokens == {RefTok(<<N_A>>)} \cup {ValTok(v) : v \in Values \cup {Null}}

FuncNames ==
  {<<"l", "o", "w", "e", "r">>,
   <<"S", "U", "B", "S", "T", "R", "I", "N", "G">>,
   <<"c", "o", "n", "t", "a", "i", "n", "s">>,
   <<"s", "t", "a", "r", "t", "s", "w", "i", "t", "h">>,
   <<"e", "n", "d", "s", "w", "i", "t", "h">>,
   <<"c", "o", "a", "l", "e", "s", "c", "e">>}

FuncTokens == {FuncTok(f, a) : f \in FuncNames, a \in SeqsUpTo(ArgTokens, MaxArgs)}

ListTokens == {ListTok(l) : l \in SeqsUpTo(ArgTokens, MaxListLen)}

InnerTokens == LeafTokens \cup FuncTokens \cup ListTokens

\* the predicates compiled: a token alone, as the right operand of a
\* comparison, inside a nested sub-expression followed by another literal,
\* as an argument of a function inside a function, and a column compared
\* with a literal and with a list by < and in
Predicates ==
  {<<tok>> : tok \in InnerTokens}
  \cup {<<RefTok(<<N_p>>), OpTok(<<"=">>), tok>> : tok \in InnerTokens}
  \cup {<<XprTok(<<RefTok(<<N_A>>), OpTok(<<"i", "n">>), tok>>),
          OpTok(<<"a", "n", "d">>), ValTok(StrVal(<<"x">>))>> : tok \in InnerTokens}
  \cup {<<FuncTok(<<"c", "o", "a", "l", "e", "s", "c", "e">>, <<tok, ValTok(NumVal(<<"7">>))>>)>> :
          tok \in FuncTokens \cup LeafTokens}
  \cup {<<RefTok(<<N_p>>), OpTok(o), tok>> :
          o \in {<<"<">>, <<"i", "n">>},
          tok \in {ValTok(NumVal(<<"7">>)),
                   ListTok(<<ValTok(StrVal(<<"x">>)), ValTok(NumVal(<<"7">>))>>)}}

\* the sinks a caller passes: empty, or holding the earlier parameters of
\* the statement
Sinks == {<<>>, <<NumVal(<<"7">>)>>}

FilterInit ==
  /\ fstate = "idle"
  /\ fxpr = <<>>
  /\ fsink = <<>>
  /\ fout = [sql |-> <<>>, params |-> <<>>]
  /\ fthrown = FALSE

\* a call translateFilter(xpr, params).  filters.ts has no throw statement
\* and the calls it makes on these inputs do not throw, so the call returns.
CallTranslateFilter ==
  \E x \in Predicates, p \in Sinks :
    /\ fstate = "idle"
    /\ fstate' = "done"
    /\ fxpr' = x
    /\ fsink' = p
    /\ fout' = translateFilter(x, p)
    /\ fthrown' = FALSE
    /\ UNCHANGED <<compileVars, apiVars, txVars, utilVars, readVars, sdkVars>>

\* the caller has taken the result; the next call starts from scratch
FilterReturn ==
  /\ fstate = "done"
  /\ fstate' = "idle"
  /\ fxpr' = <<>>
  /\ fsink' = <<>>
  /\ fout' = [sql |-> <<>>, params |-> <<>>]
  /\ fthrown' = FALSE
  /\ UNCHANGED <<compileVars, apiVars, txVars, utilVars, readVars, sdkVars>>

FilterNext == CallTranslateFilter \/ FilterReturn


(***************************************************************************)
(* Properties of the predicate compiler                                    *)
(***************************************************************************)
RECURSIVE LiteralsOf(_)
\* the literal values of a token sequence in left-to-right order, wherever
\* they occur: top level, nested sub-expression, list, function argument
LiteralsOf(xpr) ==
  IF xpr = <<>> THEN <<>>
  ELSE LET e == xpr[1]
           here == CASE e.kind = "val" -> <<e.val>>
                     [] e.kind = "func" -> LiteralsOf(e.args)
                     [] e.kind = "xpr" -> LiteralsOf(e.xpr)
                     [] e.kind = "list" -> LiteralsOf(e.list)
                     [] OTHER -> <<>>
       IN  here \o LiteralsOf(Tail(xpr))

\* the entries the call appended to the sink
Appended == SubSeq(fout.params, Len(fsink) + 1, Len(fout.params))

NonNullOf(vs) == Filter(vs, {v \in {vs[i] : i \in 1..Len(vs)} : v # Null})

NullsOf(vs) == Filter(vs, {Null})

RECURSIVE BoundValuesOf(_)
\* the values a predicate binds, one per literal occurrence, left to right:
\* the literal's value, or for the pattern argument of contains, startswith
\* and endswith the wildcarded text synthesized from it
BoundValuesOf(xpr) ==
  IF xpr = <<>> THEN <<>>
  ELSE LET e == xpr[1]
           here == CASE e.kind = "val" -> <<e.val>>
                     [] e.kind = "func" ->
                          IF /\ ToUpperCase(e.func) \in {FN_CONTAINS, FN_STARTSWITH, FN_ENDSWITH}
                             /\ Len(e.args) = 2
                             /\ e.args[2].kind = "val"
                          THEN BoundValuesOf(<<e.args[1]>>)
                                 \o <<Wildcarded(ToUpperCase(e.func), e.args[2].val)>>
                          ELSE BoundValuesOf(e.args)
                     [] e.kind = "xpr" -> BoundValuesOf(e.xpr)
                     [] e.kind = "list" -> BoundValuesOf(e.list)
                     [] OTHER -> <<>>
       IN  here \o BoundValuesOf(Tail(xpr))

\* C1: every occurrence of a non-null literal v in a compiled predicate
\* produces exactly one ? placeholder, the parameter list holds v (for the
\* pattern argument of contains, startswith and endswith: the wildcarded
\* text made from v) at the position of that placeholder, and no literal
\* value is written into the SQL text.  Stated for the predicates all of
\* whose literals are non-null.
C1_LiteralsAreBound ==
  (fstate = "done" /\ NullsOf(LiteralsOf(fxpr)) = <<>>) =>
    /\ Count(fout.sql, "?") = Len(LiteralsOf(fxpr))
    /\ Appended = BoundValuesOf(fxpr)
    /\ \A i \in 1..Len(fout.sql) : fout.sql[i] \notin ValueChars

\* C4: every null literal compiles to the text NULL and appends no entry to
\* the parameter list, wherever it occurs, list elements included.
C4_NullIsInlined ==
  fstate = "done" =>
    /\ Count(fout.sql, "NULL") = Len(NullsOf(LiteralsOf(fxpr)))
    /\ \A i \in 1..Len(Appended) : Appended[i] # Null

RECURSIVE ViolatesCallerContract(_)
\* a reference token with an empty path, or a call of SUBSTRING with fewer
\* than two arguments or of CONTAINS, STARTSWITH or ENDSWITH without exactly
\* two arguments, anywhere in the token sequence
ViolatesCallerContract(xpr) ==
  \E i \in 1..Len(xpr) :
    LET e == xpr[i]
    IN  CASE e.kind = "ref" -> e.ref = <<>>
          [] e.kind = "func" ->
               \/ ToUpperCase(e.func) = FN_SUBSTRING /\ Len(e.args) < 2
               \/ /\ ToUpperCase(e.func) \in {FN_CONTAINS, FN_STARTSWITH, FN_ENDSWITH}
                  /\ Len(e.args) # 2
               \/ ViolatesCallerContract(e.args)
          [] e.kind = "xpr" -> ViolatesCallerContract(e.xpr)
          [] e.kind = "list" -> ViolatesCallerContract(e.list)
          [] OTHER -> FALSE

\* C6: compiling a predicate that contains a reference with an empty path
\* or a function call missing required arguments raises an error instead of
\* producing SQL.
C6_ContractViolationThrows ==
  (fstate = "done" /\ ViolatesCallerContract(fxpr)) => fthrown

\* a flat predicate: operators, references to columns, non-null literals
\* and lists of non-null literals, nothing nested
IsFlat(xpr) ==
  /\ xpr # <<>>
  /\ \A i \in 1..Len(xpr) :
       \/ xpr[i].kind = "op"
       \/ xpr[i].kind = "ref" /\ xpr[i].ref # <<>>
       \/ xpr[i].kind = "val" /\ xpr[i].val # Null
       \/ /\ xpr[i].kind = "list"
          /\ \A j \in 1..Len(xpr[i].list) :
               xpr[i].list[j].kind = "val" /\ xpr[i].list[j].val # Null

\* the text of a token of a flat predicate: the operator as written, the
\* bare name of the column, `?` for a literal, `(?, ..., ?)` for a list
FlatText(tok) ==
  CASE tok.kind = "op" -> tok.op
    [] tok.kind = "ref" -> Join(tok.ref, <<".">>)
    [] tok.kind = "val" -> <<"?">>
    [] OTHER -> <<"(">> \o Join([j \in 1..Len(tok.list) |-> <<"?">>], <<", ">>) \o <<")">>

\* C16: a flat predicate compiles to the texts of its tokens in order,
\* separated by single blanks, and binds its literals in order.
C16_FlatPredicateText ==
  (fstate = "done" /\ IsFlat(fxpr)) =>
    /\ fout.sql = Join([i \in 1..Len(fxpr) |-> FlatText(fxpr[i])], <<" ">>)
    /\ Appended = LiteralsOf(fxpr)

(***************************************************************************)
(* Statement assembler (cqn/toSQL.ts)                                      *)
(*                                                                         *)
(* A compiled statement is [sql, params, error]; error is the message of   *)
(* the Error thrown, or "" when the call returned.                         *)
(***************************************************************************)
Returned(sql, params) == [sql |-> sql, params |-> params, error |-> ""]

Thrown(msg) == [sql |-> <<>>, params |-> <<>>, error |-> msg]

RECURSIVE Split(_, _)
\* String.prototype.split on a one-character separator
Split(s, sep) ==
  IF \A i \in 1..Len(s) : s[i] # sep THEN <<s>>
  ELSE LET k == CHOOSE i \in 1..Len(s) :
                  s[i] = sep /\ \A j \in 1..(i - 1) : s[j] # sep
       IN  <<SubSeq(s, 1, k - 1)>> \o Split(SubSeq(s, k + 1, Len(s)), sep)

\* parts.map(p => quoteIdentifier(p)).join('.')
QuotedPath(parts) ==
  Join([i \in 1..Len(parts) |-> quoteIdentifier(parts[i])], <<".">>)

\* qualifyName that takes the schema of the credentials for a name that
\* supplies its own
qualifyName_defaultsWin(name, credentials) ==
  LET parts == Split(name, ".")
  IN  IF Len(parts) = 3 THEN QuotedPath(parts)
      ELSE IF credentials.database # <<>> /\ credentials.schema # <<>>
      THEN QuotedPath(<<credentials.database, credentials.schema, parts[Len(parts)]>>)
      ELSE IF credentials.schema # <<>>
      THEN QuotedPath(<<credentials.schema, parts[Len(parts)]>>)
      ELSE quoteIdentifier(parts[Len(parts)])

\* identifiers.ts: qualifyName(name, credentials) with includeSchema = true;
\* an unset database or schema of the credentials is the empty name
qualifyName(name, credentials) ==
  LET parts == Split(name, ".")
  IN  IF Len(parts) = 3 THEN QuotedPath(parts)
      ELSE IF Len(parts) = 2
      THEN IF credentials.database # <<>>
           THEN QuotedPath(<<credentials.database, parts[1], parts[2]>>)
           ELSE QuotedPath(<<parts[1], parts[2]>>)
      ELSE IF credentials.database # <<>> /\ credentials.schema # <<>>
           THEN QuotedPath(<<credentials.database, credentials.schema, parts[1]>>)
           ELSE IF credentials.schema # <<>>
           THEN QuotedPath(<<credentials.schema, parts[1]>>)
           ELSE quoteIdentifier(parts[1])

RECURSIVE DigitsOf(_)
\* the decimal digits of a natural number, as in a template literal
DigitsOf(n) ==
  LET d == <<"0", "1", "2", "3", "4", "5", "6", "7", "8", "9">>
  IN  IF n < 10 THEN <<d[n + 1]>> ELSE DigitsOf(n \div 10) \o <<d[(n % 10) + 1]>>

\* assocName.charAt(0).toUpperCase() + assocName.slice(1)
Capitalize(name) ==
  IF name = <<>> THEN <<>> ELSE ToUpperCase(<<name[1]>>) \o Tail(name)

\* Column specifications.  as = <<>> stands for no alias.
RefCol(ref, as) == [kind |-> "ref", ref |-> ref, as |-> as]

ExpandCol(ref, expand) == [kind |-> "expand", ref |-> ref, expand |-> expand]

InlineCol(ref, inline) == [kind |-> "inline", ref |-> ref, inline |-> inline]

ValCol(val) == [kind |-> "val", val |-> val]

StarCol == [kind |-> "star"]

\* a column specification that carries a ref field
HasRef(col) == col.kind \in {"ref", "expand", "inline"}

\* translateColumn for the kinds of the model: reference, literal, other
translateColumn(col) ==
  IF col.kind = "ref"
  THEN IF col.as # <<>>
       THEN QuotedPath(col.ref) \o <<" AS ">> \o quoteIdentifier(col.as)
       ELSE QuotedPath(col.ref)
  ELSE IF col.kind = "val"
  THEN IF col.val = Null THEN <<"NULL">> ELSE col.val.s
  ELSE <<"*">>

\* translateFrom; a FROM clause without ref has ref = <<>>
translateFrom(from, credentials) ==
  IF from.ref # <<>>
  THEN LET tableName == Join(from.ref, <<".">>)
           qualified == qualifyName(tableName, credentials)
       IN  IF from.as # <<>>
           THEN [sql |-> qualified \o <<" AS ">> \o quoteIdentifier(from.as), error |-> ""]
           ELSE [sql |-> qualified, error |-> ""]
  ELSE [sql |-> <<>>, error |-> "Invalid FROM clause"]

\* `LEFT JOIN ${targetTable} AS ${joinAlias} ON ${baseAlias}.${fk} = ${joinAlias}.ID`
JoinSQL(assocName, joinAlias, baseAlias, credentials) ==
  LET foreignKey == assocName \o <<"_", "I", "D">>
      targetTable == qualifyName(Capitalize(assocName), credentials)
  IN  <<"LEFT JOIN ">> \o targetTable \o <<" AS ">> \o joinAlias \o <<" ON ">>
        \o baseAlias \o <<".">> \o quoteIdentifier(foreignKey) \o <<" = ">>
        \o joinAlias \o <<".ID">>

\* the alias of a leaf column of an expansion: `${assocName}_${colName}`
ExpandAlias(assocName, colName) == assocName \o <<"_">> \o colName

\* the alias of a leaf column of an inline expansion
InlineAlias(assocName, inlineCol) ==
  IF inlineCol.as # <<>> THEN inlineCol.as
  ELSE ExpandAlias(assocName, inlineCol.ref[Len(inlineCol.ref)])

RECURSIVE ExpandedColumns(_, _, _)
\* the inner loop over the entries of an expansion: one aliased column per
\* entry that has a ref, named by the last segment of the ref
ExpandedColumns(assocName, joinAlias, expandSpec) ==
  IF expandSpec = <<>> THEN <<>>
  ELSE LET expandCol == expandSpec[1]
           rest == ExpandedColumns(assocName, joinAlias, Tail(expandSpec))
       IN  IF HasRef(expandCol)
           THEN LET colName == expandCol.ref[Len(expandCol.ref)]
                    alias == ExpandAlias(assocName, colName)
                IN  <<joinAlias \o <<".">> \o quoteIdentifier(colName) \o <<" AS ">>
                        \o quoteIdentifier(alias)>> \o rest
           ELSE rest

RECURSIVE InlinedColumns(_, _, _)
InlinedColumns(assocName, joinAlias, inlineSpec) ==
  IF inlineSpec = <<>> THEN <<>>
  ELSE LET inlineCol == inlineSpec[1]
           rest == InlinedColumns(assocName, joinAlias, Tail(inlineSpec))
       IN  IF HasRef(inlineCol)
           THEN LET colName == inlineCol.ref[Len(inlineCol.ref)]
                    alias == InlineAlias(assocName, inlineCol)
                IN  <<joinAlias \o <<".">> \o quoteIdentifier(colName) \o <<" AS ">>
                        \o quoteIdentifier(alias)>> \o rest
           ELSE rest

\* the alias made without the counter
JoinAlias_constant(prefix, n) == <<prefix>> \o DigitsOf(0)

\* `expand_${joinCounter++}` and `inline_${joinCounter++}`: the alias made
\* from the value of the counter before the increment
JoinAlias(prefix, n) == <<prefix>> \o DigitsOf(n)

RECURSIVE ProcessColumns(_, _, _, _)
\* the loop of processColumnsWithExpand from the counter value n on
ProcessColumns(columns, baseAlias, credentials, n) ==
  IF columns = <<>>
  THEN [baseColumns |-> <<>>, expandColumns |-> <<>>, joins |-> <<>>, joinCounter |-> n]
  ELSE LET col == columns[1]
       IN  IF col.kind = "expand"
           THEN LET assocName == col.ref[1]
                    joinAlias == JoinAlias("expand_", n)
                    r == ProcessColumns(Tail(columns), baseAlias, credentials, n + 1)
                IN  [r EXCEPT
                       !.joins = <<JoinSQL(assocName, joinAlias, baseAlias, credentials)>> \o @,
                       !.expandColumns =
                          ExpandedColumns(assocName, joinAlias, col.expand) \o @]
           ELSE IF col.kind = "inline"
           THEN LET assocName == col.ref[1]
                    joinAlias == JoinAlias("inline_", n)
                    r == ProcessColumns(Tail(columns), baseAlias, credentials, n + 1)
                IN  [r EXCEPT
                       !.joins = <<JoinSQL(assocName, joinAlias, baseAlias, credentials)>> \o @,
                       !.expandColumns =
                          InlinedColumns(assocName, joinAlias, col.inline) \o @]
           ELSE LET r == ProcessColumns(Tail(columns), baseAlias, credentials, n)
                IN  [r EXCEPT !.baseColumns = <<translateColumn(col)>> \o @]

\* processColumnsWithExpand with the counter hoisted out of the function: it
\* starts from the value the last call left
processColumnsWithExpand_sharedCounter(columns, from, credentials) ==
  ProcessColumns(columns, IF from.as # <<>> THEN from.as ELSE <<"base">>,
                 credentials, joinCounter)

\* processColumnsWithExpand: `let joinCounter = 0` is local to the call
processColumnsWithExpand(columns, from, credentials) ==
  ProcessColumns(columns, IF from.as # <<>> THEN from.as ELSE <<"base">>,
                 credentials, 0)

\* select.columns?.some(col => col.expand || col.inline)
HasExpansions(columns) ==
  \E i \in 1..Len(columns) : columns[i].kind \in {"expand", "inline"}

\* the clause ` WHERE ...` or ` HAVING ...` appended for a predicate, with
\* the sink after it; nothing is appended for an empty predicate or text
FilterClause(keyword, xpr, params) ==
  IF xpr = <<>> THEN [sql |-> <<>>, params |-> params]
  ELSE LET r == translateFilter(xpr, params)
       IN  IF r.sql # <<>>
           THEN [sql |-> <<keyword>> \o r.sql, params |-> r.params]
           ELSE [sql |-> <<>>, params |-> r.params]

\* translateGroupBy for an entry that has a ref
translateGroupBy(groupBy) == QuotedPath(groupBy.ref)

\* orderby.ts: translateOrderByItem for an item that has a ref; sort and
\* nulls are <<>> when the item does not carry them
translateOrderByItem(item) ==
  QuotedPath(item.ref)
    \o (IF item.sort # <<>> THEN <<" ">> \o ToUpperCase(item.sort) ELSE <<>>)
    \o (IF item.nulls # <<>> THEN <<" NULLS ">> \o ToUpperCase(item.nulls) ELSE <<>>)

\* orderby.ts: translateOrderBy
translateOrderBy(orderBy) ==
  IF orderBy = <<>> THEN <<>>
  ELSE <<"ORDER BY ">>
         \o Join([i \in 1..Len(orderBy) |-> translateOrderByItem(orderBy[i])], <<", ">>)

\* pagination.ts: translatePagination({top, skip}); an option is a record
\* [set, val], set = FALSE standing for undefined
translatePagination(top, skip) ==
  LET parts == (IF top.set /\ top.val >= 0
                THEN <<(<<"LIMIT ">> \o DigitsOf(top.val))>> ELSE <<>>)
                 \o (IF skip.set /\ skip.val > 0
                     THEN <<(<<"OFFSET ">> \o DigitsOf(skip.val))>> ELSE <<>>)
  IN  Join(parts, <<" ">>)

\* pagination.ts: wrapWithCount
wrapWithCount(sql) ==
  <<"SELECT COUNT(*) AS \"count\" FROM (">> \o sql \o <<") AS \"countQuery\"">>

\* the texts translateSelect appends to `SELECT`, one per clause, and the
\* parameter sink after HAVING; pc is what processColumnsWithExpand
\* returned, where and having what the two predicates compiled to
ClauseTexts(select, pc, where, having, orderBy, pagination) ==
  [distinct |-> IF select.distinct THEN <<" DISTINCT">> ELSE <<>>,
   columns |->
     IF select.columns = <<>> THEN <<" *">>
     ELSE IF HasExpansions(select.columns)
     THEN <<" ">> \o Join(pc.baseColumns \o pc.expandColumns, <<", ">>)
     ELSE <<" ">> \o Join([i \in 1..Len(select.columns) |->
                             translateColumn(select.columns[i])], <<", ">>),
   joins |->
     IF select.columns # <<>> /\ HasExpansions(select.columns)
     THEN Join(pc.joins, <<" ">>)
     ELSE <<>>,
   where |-> where.sql,
   groupBy |->
     IF select.groupBy # <<>>
     THEN <<" GROUP BY ">>
            \o Join([i \in 1..Len(select.groupBy) |->
                       translateGroupBy(select.groupBy[i])], <<", ">>)
     ELSE <<>>,
   having |-> having.sql,
   orderBy |-> IF orderBy # <<>> THEN <<" ">> \o orderBy ELSE <<>>,
   pagination |-> IF pagination # <<>> THEN <<" ">> \o pagination ELSE <<>>,
   params |-> having.params]

\* HAVING is compiled with the sink WHERE left
ClausesAfterWhere(select, pc, where) ==
  ClauseTexts(select, pc, where,
              FilterClause(" HAVING ", select.having, where.params),
              translateOrderBy(select.orderBy),
              IF select.limit.present
              THEN translatePagination(select.limit.rows, select.limit.offset)
              ELSE <<>>)

SelectClauses(select, credentials, params) ==
  ClausesAfterWhere(select,
                    processColumnsWithExpand(select.columns, select.from, credentials),
                    FilterClause(" WHERE ", select.where, params))

\* the statement with the HAVING block in front of the GROUP BY block
SelectStatement_havingFirst(from, c) ==
  IF from.error # "" THEN Thrown(from.error)
  ELSE Returned(<<"SELECT">> \o c.distinct \o c.columns \o <<" FROM ">> \o from.sql
                  \o c.joins \o c.where \o c.having \o c.groupBy \o c.orderBy
                  \o c.pagination,
                c.params)

\* the statement: the clauses in the order in which the source appends them
\* to sql; translateFrom throws for a FROM clause without ref
SelectStatement(from, c) ==
  IF from.error # "" THEN Thrown(from.error)
  ELSE Returned(<<"SELECT">> \o c.distinct \o c.columns \o <<" FROM ">> \o from.sql
                  \o c.joins \o c.where \o c.groupBy \o c.having \o c.orderBy
                  \o c.pagination,
                c.params)

translateSelect(select, credentials, params) ==
  SelectStatement(translateFrom(select.from, credentials),
                  SelectClauses(select, credentials, params))

\* An entry of a batch insert is a JavaScript object: its keys in insertion
\* order, each with a value, as a sequence of <<key, value>> pairs.
KeysOf(entry) == [i \in 1..Len(entry) |-> entry[i][1]]

\* entry[col]: the value of the key, undefined when the entry lacks it
Lookup(entry, col) ==
  IF \E i \in 1..Len(entry) : entry[i][1] = col
  THEN entry[CHOOSE i \in 1..Len(entry) : entry[i][1] = col][2]
  ELSE Undefined

QuotedList(columns) ==
  Join([i \in 1..Len(columns) |-> quoteIdentifier(columns[i])], <<", ">>)

\* n placeholders, joined by ', ' and wrapped in parentheses
ValueSet(n) == <<"(">> \o Join([i \in 1..n |-> placeholder], <<", ">>) \o <<")">>

\* translateInsert; insert.present holds the names of the fields the tree
\* carries
translateInsert(insert, credentials, params) ==
  LET tableName == qualifyName(insert.into, credentials)
  IN
  IF "entries" \in insert.present /\ Len(insert.entries) > 0
  THEN LET columns == KeysOf(insert.entries[1])
           bound == Concat([e \in 1..Len(insert.entries) |->
                      [c \in 1..Len(columns) |-> Lookup(insert.entries[e], columns[c])]])
           valueSets == [e \in 1..Len(insert.entries) |-> ValueSet(Len(columns))]
       IN  Returned(<<"INSERT INTO ">> \o tableName \o <<" (">> \o QuotedList(columns)
                      \o <<") VALUES ">> \o Join(valueSets, <<", ">>),
                    params \o bound)
  ELSE IF {"columns", "values"} \subseteq insert.present
  THEN Returned(<<"INSERT INTO ">> \o tableName \o <<" (">> \o QuotedList(insert.columns)
                  \o <<") VALUES ">> \o ValueSet(Len(insert.values)),
                params \o insert.values)
  ELSE IF "rows" \in insert.present
  THEN LET quotedCols == IF "columns" \in insert.present
                         THEN QuotedList(insert.columns) ELSE <<>>
           valueSets == [r \in 1..Len(insert.rows) |-> ValueSet(Len(insert.rows[r]))]
       IN  Returned(<<"INSERT INTO ">> \o tableName \o <<" (">> \o quotedCols
                      \o <<") VALUES ">> \o Join(valueSets, <<", ">>),
                    params \o Concat(insert.rows))
  ELSE Thrown("Invalid INSERT statement")

\* the statement text followed by the WHERE clause, with the sink after it
WithWhere(head, clause) == Returned(head \o clause.sql, clause.params)

\* the SET clauses of translateUpdate: one per key of update.data
SetClauses(data) ==
  [i \in 1..Len(data) |-> quoteIdentifier(data[i][1]) \o <<" = ">> \o placeholder]

\* translateUpdate; update.data is a JavaScript object, modelled as the
\* entries of a batch insert are, and update.hasData tells whether the tree
\* carries it
translateUpdate(update, credentials, params) ==
  IF ~update.hasData THEN Thrown("UPDATE requires data")
  ELSE WithWhere(<<"UPDATE ">> \o qualifyName(update.entity, credentials) \o <<" SET ">>
                   \o Join(SetClauses(update.data), <<", ">>),
                 FilterClause(" WHERE ", update.where,
                              params \o [i \in 1..Len(update.data) |-> update.data[i][2]]))

\* translateDelete
translateDelete(del, credentials, params) ==
  WithWhere(<<"DELETE FROM ">> \o qualifyName(del.from, credentials),
            FilterClause(" WHERE ", del.where, params))

\* cqnToSQL: `const params = []` is local to the call.  The model's query
\* trees are SELECT, INSERT, UPDATE and DELETE trees and trees without any
\* operation.
cqnToSQL(cqn, credentials) ==
  LET params == <<>>
  IN  IF cqn.kind = "SELECT" THEN translateSelect(cqn, credentials, params)
      ELSE IF cqn.kind = "INSERT" THEN translateInsert(cqn, credentials, params)
      ELSE IF cqn.kind = "UPDATE" THEN translateUpdate(cqn, credentials, params)
      ELSE IF cqn.kind = "DELETE" THEN translateDelete(cqn, credentials, params)
      ELSE Thrown("Unsupported CQN operation")

(***************************************************************************)
(* MERGE statements (toSQL.ts: generateMerge)                              *)
(*                                                                         *)
(* data is a JavaScript object, modelled as the entries of a batch insert  *)
(* are.  The line feeds of the template literals are pieces of their own.  *)
(***************************************************************************)
\* allColumns.filter(col => !keys.includes(col))
UpdateColumns(allColumns, keys) ==
  Filter(allColumns, {allColumns[i] : i \in 1..Len(allColumns)}
                       \ {keys[i] : i \in 1..Len(keys)})

\* the text of generateMerge for the given columns of the UPDATE branch
MergeSQL(tableName, keys, data, credentials, updateCols) ==
  LET qualified == qualifyName(tableName, credentials)
      allColumns == KeysOf(data)
      quotedKeys == [i \in 1..Len(keys) |-> quoteIdentifier(keys[i])]
      quotedCols == [i \in 1..Len(allColumns) |-> quoteIdentifier(allColumns[i])]
      onConditions ==
        Join([i \in 1..Len(quotedKeys) |->
                <<"target.">> \o quotedKeys[i] \o <<" = source.">> \o quotedKeys[i]],
             <<" AND ">>)
      updateSetClauses ==
        [i \in 1..Len(updateCols) |->
           quoteIdentifier(updateCols[i]) \o <<" = source.">>
             \o quoteIdentifier(updateCols[i])]
  IN  <<"MERGE INTO ">> \o qualified \o <<" AS target", "\n">>
        \o <<"USING (SELECT ">>
        \o Join([i \in 1..Len(quotedCols) |-> placeholder \o <<" AS ">> \o quotedCols[i]],
                <<", ">>)
        \o <<") AS source", "\n">>
        \o <<"ON ">> \o onConditions \o <<"\n">>
        \o (IF Len(updateSetClauses) > 0
            THEN <<"WHEN MATCHED THEN UPDATE SET ">> \o Join(updateSetClauses, <<", ">>)
                   \o <<"\n">>
            ELSE <<>>)
        \o <<"WHEN NOT MATCHED THEN INSERT (">> \o Join(quotedCols, <<", ">>)
        \o <<") VALUES (">>
        \o Join([i \in 1..Len(quotedCols) |-> <<"source.">> \o quotedCols[i]], <<", ">>)
        \o <<")">>

\* generateMerge with an UPDATE branch that sets every column of the record
generateMerge_updatesAll(tableName, keys, data, credentials) ==
  [sql |-> MergeSQL(tableName, keys, data, credentials, KeysOf(data)),
   params |-> [i \in 1..Len(data) |-> Lookup(data, KeysOf(data)[i])]]

\* generateMerge: `const params = []` is local; one value is pushed per
\* column of the record
generateMerge(tableName, keys, data, credentials) ==
  [sql |-> MergeSQL(tableName, keys, data, credentials,
                    UpdateColumns(KeysOf(data), keys)),
   params |-> [i \in 1..Len(data) |-> Lookup(data, KeysOf(data)[i])]]

(***************************************************************************)
(* Temporal conditions (temporal.ts)                                       *)
(*                                                                         *)
(* A temporal query is a record of asOf, from and to; each is <<>> when    *)
(* the query does not carry it, else the text of the instant (for a Date   *)
(* the text toISOString gives).                                            *)
(***************************************************************************)
\* formatTemporalValue: `'${value}'`
formatTemporalValue(value) == <<"'">> \o value \o <<"'">>

\* the conditions pushed after the existing predicate
TemporalConditionsOf(validFrom, validTo, temporalQuery) ==
  IF temporalQuery.asOf # <<>>
  THEN LET asOfValue == formatTemporalValue(temporalQuery.asOf)
       IN  <<validFrom \o <<" <= ">> \o asOfValue, asOfValue \o <<" < ">> \o validTo>>
  ELSE IF temporalQuery.from # <<>> \/ temporalQuery.to # <<>>
  THEN (IF temporalQuery.from # <<>>
        THEN <<validTo \o <<" > ">> \o formatTemporalValue(temporalQuery.from)>>
        ELSE <<>>)
         \o (IF temporalQuery.to # <<>>
             THEN <<validFrom \o <<" < ">> \o formatTemporalValue(temporalQuery.to)>>
             ELSE <<>>)
  ELSE <<validFrom \o <<" <= ">> \o <<"CURRENT_TIMESTAMP()">>,
         <<"CURRENT_TIMESTAMP()">> \o <<" < ">> \o validTo>>

\* addTemporalConditions that pushes the existing predicate as it is
addTemporalConditions_bare(whereClause, temporalFields, temporalQuery) ==
  Join((IF whereClause # <<>> THEN <<whereClause>> ELSE <<>>)
         \o TemporalConditionsOf(quoteIdentifier(temporalFields.validFrom),
                                 quoteIdentifier(temporalFields.validTo),
                                 temporalQuery),
       <<" AND ">>)

\* addTemporalConditions that compares the two fields the other way round
addTemporalConditions_swapped(whereClause, temporalFields, temporalQuery) ==
  Join((IF whereClause # <<>> THEN <<(<<"(">> \o whereClause \o <<")">>)>> ELSE <<>>)
         \o TemporalConditionsOf(quoteIdentifier(temporalFields.validTo),
                                 quoteIdentifier(temporalFields.validFrom),
                                 temporalQuery),
       <<" AND ">>)

\* addTemporalConditions; an absent temporalQuery is the query that carries
\* nothing
addTemporalConditions(whereClause, temporalFields, temporalQuery) ==
  Join((IF whereClause # <<>> THEN <<(<<"(">> \o whereClause \o <<")">>)>> ELSE <<>>)
         \o TemporalConditionsOf(quoteIdentifier(temporalFields.validFrom),
                                 quoteIdentifier(temporalFields.validTo),
                                 temporalQuery),
       <<" AND ">>)

(***************************************************************************)
(* Result reshaper (SnowflakeService.restructureExpands)                   *)
(*                                                                         *)
(* A row is a function from column names to values.  A nested object is    *)
(* the value ObjVal(fields).                                               *)
(***************************************************************************)
ObjVal(fields) == [t |-> "obj", f |-> fields]

\* the inner loop over select.columns for one key of the row: the index of
\* the first expansion whose prefix the key carries, 0 when there is none
ExpandIndexOf(key, columns) ==
  LET hits == {i \in 1..Len(columns) :
                 /\ columns[i].kind = "expand"
                 /\ StartsWith(key, columns[i].ref[1] \o <<"_">>)
                 /\ key # columns[i].ref[1] \o <<"_", "I", "D">>}
  IN  IF hits = {} THEN 0 ELSE CHOOSE i \in hits : \A j \in hits : i <= j

\* the body of rows.map(row => ...) in restructureExpands
RestructureRow(row, columns) ==
  LET moved == {k \in DOMAIN row : ExpandIndexOf(k, columns) # 0}
      assocOf(k) == columns[ExpandIndexOf(k, columns)].ref[1]
      assocs == {assocOf(k) : k \in moved}
      data(a) == LET ks == {k \in moved : assocOf(k) = a}
                 IN  [fd \in {Substring(k, Len(a) + 1) : k \in ks} |->
                        row[a \o <<"_">> \o fd]]
      hasData(a) == \E fd \in DOMAIN data(a) : data(a)[fd] # Null
  IN  [k \in ((DOMAIN row) \ moved) \cup assocs |->
         IF k \in assocs
         THEN IF hasData(k) THEN ObjVal(data(k)) ELSE Null
         ELSE row[k]]

restructureExpands(rows, select) ==
  IF ~HasExpansions(select.columns) THEN rows
  ELSE [i \in 1..Len(rows) |-> RestructureRow(rows[i], select.columns)]

(***************************************************************************)
(* Inputs of the statement assembler                                       *)
(***************************************************************************)
MaxCols == 3

MaxEntries == 2

MaxCalls == 3

\* the credentials of the adapter's unit tests: database and schema set
Credentials == [database |-> <<"D", "B">>, schema |-> <<"S">>]

N_t == <<"t">>

N_n == <<"n">>

N_ID == <<"I", "D">>

N_a == <<"a">>

N_ab == <<"a", "_", "b">>

N_an == <<"a", "_", "n">>

N_T == <<"T">>

N_S == <<"S", "2">>

N_k == <<"k">>

N_m == <<"m">>

\* a plain column, a plain column whose name starts with an association's
\* prefix, expansions of a, p and a_b, and an inline expansion of a
ColumnChoices ==
  {RefCol(<<N_t>>, <<>>),
   RefCol(<<N_an>>, <<>>),
   ExpandCol(<<N_a>>, <<RefCol(<<N_ID>>, <<>>), RefCol(<<N_n>>, <<>>)>>),
   ExpandCol(<<N_p>>, <<RefCol(<<N_n>>, <<>>)>>),
   ExpandCol(<<N_ab>>, <<RefCol(<<N_n>>, <<>>)>>),
   InlineCol(<<N_a>>, <<RefCol(<<N_n>>, <<"z">>)>>)}

\* column lists with plain columns next to an expansion: a column whose
\* name, and a column whose alias, begins with the name of the association
\* and an underscore, and a column named otherwise
PlainPrefixColumnLists ==
  {<<RefCol(<<N_a \o <<"_">> \o N_k>>, <<>>), ExpandCol(<<N_a>>, <<RefCol(<<N_n>>, <<>>)>>)>>,
   <<RefCol(<<N_t>>, N_a \o <<"_">> \o N_t), ExpandCol(<<N_a>>, <<RefCol(<<N_n>>, <<>>)>>)>>,
   <<RefCol(<<N_t>>, <<>>), RefCol(<<N_k>>, <<"u">>),
     ExpandCol(<<N_a>>, <<RefCol(<<N_n>>, <<>>)>>)>>}

\* column lists with literal columns: a text, a number, null
LiteralColumnLists ==
  {<<ValCol(StrVal(<<"x">>))>>,
   <<RefCol(<<N_t>>, <<>>), ValCol(NumVal(<<"7">>))>>,
   <<ValCol(Null), RefCol(<<N_t>>, <<>>)>>,
   <<ValCol(StrVal(<<"x">>)), ValCol(Null), ValCol(NumVal(<<"7">>))>>}

\* an option of a limit: undefined, or a number
Unset == [set |-> FALSE, val |-> 0]

NumOpt(n) == [set |-> TRUE, val |-> n]

\* select.limit: absent, or {rows: {val}, offset: {val}}
NoLimit == [present |-> FALSE, rows |-> Unset, offset |-> Unset]

Limit(rows, offset) == [present |-> TRUE, rows |-> rows, offset |-> offset]

\* a SELECT tree without groupBy, orderBy and limit
Select(distinct, from, columns, where, having) ==
  [kind |-> "SELECT", distinct |-> distinct, from |-> from, columns |-> columns,
   where |-> where, having |-> having, groupBy |-> <<>>, orderBy |-> <<>>,
   limit |-> NoLimit]

\* the tree with groupBy, orderBy and limit set
SelectWith(select, groupBy, orderBy, limit) ==
  [select EXCEPT !.groupBy = groupBy, !.orderBy = orderBy, !.limit = limit]

FromT == [ref |-> <<N_T>>, as |-> <<>>]

PriceFilter == <<RefTok(<<N_p>>), OpTok(<<"<">>), ValTok(NumVal(<<"7">>))>>

HavingFilter == <<RefTok(<<N_t>>), OpTok(<<"=">>), ValTok(StrVal(<<"x">>))>>

\* a predicate over the path a.n: the column n of the target of the
\* association a
PathFilter == <<RefTok(<<N_a, N_n>>), OpTok(<<"=">>), ValTok(StrVal(<<"x">>))>>

\* column lists with an expansion that requests a further expansion, two
\* and three levels deep
NestedColumnLists ==
  {<<ExpandCol(<<N_a>>, <<RefCol(<<N_n>>, <<>>),
                          ExpandCol(<<N_p>>, <<RefCol(<<N_n>>, <<>>)>>)>>)>>,
   <<RefCol(<<N_t>>, <<>>),
     ExpandCol(<<N_a>>,
       <<ExpandCol(<<N_p>>,
           <<RefCol(<<N_n>>, <<>>),
             ExpandCol(<<N_t>>, <<RefCol(<<N_n>>, <<>>)>>)>>)>>)>>}

\* column lists with an inline expansion whose flat aliases are the default
\* `${assocName}_${colName}`, alone and next to expansions
SharedPrefixColumnLists ==
  {<<InlineCol(<<N_a>>, <<RefCol(<<N_k>>, <<>>)>>)>>,
   <<ExpandCol(<<N_p>>, <<RefCol(<<N_n>>, <<>>)>>),
     InlineCol(<<N_a>>, <<RefCol(<<N_k>>, <<>>)>>)>>,
   <<ExpandCol(<<N_a>>, <<RefCol(<<N_n>>, <<>>)>>),
     InlineCol(<<N_a>>, <<RefCol(<<N_k>>, <<>>)>>)>>}

OrderByChoices ==
  {<<>>,
   <<[ref |-> <<N_t>>, sort |-> <<"d", "e", "s", "c">>, nulls |-> <<"l", "a", "s", "t">>],
     [ref |-> <<N_n>>, sort |-> <<>>, nulls |-> <<>>]>>}

\* no limit, rows only, rows and offset, offset only, and rows 0 with
\* offset 0
LimitChoices ==
  {NoLimit, Limit(NumOpt(5), Unset), Limit(NumOpt(5), NumOpt(2)),
   Limit(Unset, NumOpt(2)), Limit(NumOpt(0), NumOpt(0))}

Selects ==
  {Select(FALSE, FromT, cs, <<>>, <<>>) : cs \in SeqsUpTo(ColumnChoices, MaxCols)}
  \cup {Select(d, [ref |-> r, as |-> a], cs, w, h) :
          d \in BOOLEAN,
          r \in {<<N_T>>, <<N_S, N_T>>, <<>>},
          a \in {<<>>, <<"b">>},
          cs \in {<<>>, <<RefCol(<<N_t>>, <<"u">>)>>,
                  <<ExpandCol(<<N_a>>, <<RefCol(<<N_n>>, <<>>)>>)>>},
          w \in {<<>>, PriceFilter},
          h \in {<<>>, HavingFilter}}
  \cup {Select(FALSE, FromT, cs, w, <<>>) :
          cs \in NestedColumnLists \cup SharedPrefixColumnLists
                   \cup PlainPrefixColumnLists \cup LiteralColumnLists \cup {<<>>},
          w \in {<<>>, PathFilter}}
  \cup {SelectWith(Select(d, FromT, cs, w, h), g, o, l) :
          d \in BOOLEAN,
          cs \in {<<RefCol(<<N_t>>, <<>>)>>,
                  <<ExpandCol(<<N_a>>, <<RefCol(<<N_n>>, <<>>)>>)>>},
          w \in {<<>>, PriceFilter},
          g \in {<<>>, <<[ref |-> <<N_t>>]>>},
          h \in {<<>>, HavingFilter},
          o \in OrderByChoices,
          l \in LimitChoices}

\* the records of a batch insert: key sets {}, {k}, {m} and {k, m}, the
\* last in both key orders
EntryChoices ==
  {<<>>,
   <<<<N_k, StrVal(<<"x">>)>>>>,
   <<<<N_k, Null>>>>,
   <<<<N_m, NumVal(<<"7">>)>>>>,
   <<<<N_k, StrVal(<<"x">>)>>, <<N_m, NumVal(<<"7">>)>>>>,
   <<<<N_m, NumVal(<<"7">>)>>, <<N_k, StrVal(<<"x">>)>>>>}

Insert(present, entries, columns, values, rows) ==
  [kind |-> "INSERT", into |-> N_T, present |-> present, entries |-> entries,
   columns |-> columns, values |-> values, rows |-> rows]

Inserts ==
  {Insert({"entries"}, es, <<>>, <<>>, <<>>) : es \in SeqsUpTo(EntryChoices, MaxEntries)}
  \cup {Insert({"columns", "values"}, <<>>, <<N_k, N_m>>, vs, <<>>) :
          vs \in {<<StrVal(<<"x">>), NumVal(<<"7">>)>>, <<Null, StrVal(<<"x">>)>>}}
  \cup {Insert(ps, <<>>, <<N_k>>, <<>>, <<<<StrVal(<<"x">>)>>, <<NumVal(<<"7">>)>>>>) :
          ps \in {{"rows"}, {"rows", "columns"}}}
  \cup {Insert({}, <<>>, <<>>, <<>>, <<>>)}

\* a predicate with a pattern function whose first argument is the literal
PatternFilter ==
  <<FuncTok(<<"e", "n", "d", "s", "w", "i", "t", "h">>,
            <<ValTok(StrVal(<<"x">>)), RefTok(<<N_A>>)>>)>>

WhereChoices == {<<>>, PriceFilter, PatternFilter}

Update(hasData, data, where) ==
  [kind |-> "UPDATE", entity |-> N_T, hasData |-> hasData, data |-> data, where |-> where]

Updates ==
  {Update(TRUE, data, w) : data \in EntryChoices \ {<<>>}, w \in WhereChoices}
  \cup {Update(FALSE, <<>>, <<>>)}

Delete(where) == [kind |-> "DELETE", from |-> N_T, where |-> where]

Deletes == {Delete(w) : w \in WhereChoices}

Queries == Selects \cup Inserts \cup Updates \cup Deletes \cup {[kind |-> "NONE"]}

\* the statements compiled between two compilations of the same tree
Interleaved ==
  {Select(FALSE, FromT,
          <<ExpandCol(<<N_a>>, <<RefCol(<<N_n>>, <<>>)>>),
            ExpandCol(<<N_p>>, <<RefCol(<<N_n>>, <<>>)>>)>>, PriceFilter, <<>>),
   Insert({"entries"}, <<<<<<N_k, StrVal(<<"x">>)>>>>>>, <<>>, <<>>, <<>>)}

(***************************************************************************)
(* Rows returned by the execution of a compiled SELECT: one value for      *)
(* every output column, named by its alias or, without alias, its column.  *)
(***************************************************************************)
RowValues == {StrVal(<<"x">>), Null}

\* the output column names one entry of select.columns contributes
OutputNamesOf(col) ==
  CASE col.kind = "ref" ->
         {IF col.as # <<>> THEN col.as ELSE col.ref[Len(col.ref)]}
    [] col.kind = "expand" ->
         {ExpandAlias(col.ref[1], col.expand[i].ref[Len(col.expand[i].ref)]) :
            i \in {j \in 1..Len(col.expand) : HasRef(col.expand[j])}}
    [] col.kind = "inline" ->
         {InlineAlias(col.ref[1], col.inline[i]) :
            i \in {j \in 1..Len(col.inline) : HasRef(col.inline[j])}}
    [] OTHER -> {}

OutputNames(select) ==
  UNION {OutputNamesOf(select.columns[i]) : i \in 1..Len(select.columns)}

RowsOf(select) == [OutputNames(select) -> RowValues]

CompileInit ==
  /\ clog = <<>>
  /\ joinCounter = 0
  /\ reshapeIn = <<>>
  /\ reshapeOut = <<>>

\* the value of joinCounter when the call of cqnToSQL returns
CounterAfter(cqn) ==
  IF cqn.kind = "SELECT" /\ cqn.columns # <<>> /\ HasExpansions(cqn.columns)
  THEN processColumnsWithExpand(cqn.columns, cqn.from, Credentials).joinCounter
  ELSE joinCounter

\* a call cqnToSQL(cqn, credentials).  The first call of a run compiles any
\* tree, the second the same tree or another statement, later calls the
\* first tree again.
Compile ==
  /\ Len(clog) < MaxCalls
  /\ reshapeIn = <<>>
  /\ \E cqn \in (IF clog = <<>> THEN Queries
                  ELSE IF Len(clog) = 1 THEN Interleaved \cup {clog[1].query}
                  ELSE {clog[1].query}) :
       /\ clog' = Append(clog, [query |-> cqn, result |-> cqnToSQL(cqn, Credentials)])
       /\ joinCounter' = CounterAfter(cqn)
  /\ UNCHANGED <<reshapeIn, reshapeOut>>
  /\ UNCHANGED <<filterVars, apiVars, txVars, utilVars, readVars, sdkVars>>

\* the rows of the compiled SELECT pass through restructureExpands, as in
\* SnowflakeService.read
Reshape ==
  /\ Len(clog) = 1
  /\ clog[1].query.kind = "SELECT"
  /\ clog[1].result.error = ""
  /\ reshapeIn = <<>>
  /\ \E row \in RowsOf(clog[1].query) :
       /\ reshapeIn' = <<row>>
       /\ reshapeOut' = restructureExpands(<<row>>, clog[1].query)
  /\ UNCHANGED <<clog, joinCounter>>
  /\ UNCHANGED <<filterVars, apiVars, txVars, utilVars, readVars, sdkVars>>

CompileNext == Compile \/ Reshape


(***************************************************************************)
(* Properties of the statement assembler and the reshaper                  *)
(***************************************************************************)
\* the calls of the log that compiled a SELECT with expansions
ExpandingCalls ==
  {i \in 1..Len(clog) :
     /\ clog[i].query.kind = "SELECT"
     /\ clog[i].result.error = ""
     /\ HasExpansions(clog[i].query.columns)}

\* the expansion entries of a column list, in request order
RECURSIVE ExpansionsOf(_)
ExpansionsOf(columns) ==
  IF columns = <<>> THEN <<>>
  ELSE (IF columns[1].kind \in {"expand", "inline"} THEN <<columns[1]>> ELSE <<>>)
         \o ExpansionsOf(Tail(columns))

\* Reading a compiled SELECT back: the texts of the joins, in text order
JoinTextsIn(sql) == Tail(Split(sql, "LEFT JOIN "))

\* the alias of a join text `<table> AS <alias> ON <condition>`
AliasOfJoin(joinText) == Split(Split(joinText, " AS ")[2], " ON ")[1]

\* the left side of its condition
LeftOfCondition(joinText) == Split(Split(joinText, " ON ")[2], " = ")[1]

\* the columns `<qualifier>.<column> AS <alias>` of the select list whose
\* qualifier is one of the given join aliases, in text order
AliasedColumnsIn(sql, aliases) ==
  LET head == Split(sql, " FROM ")[1]
      first == CHOOSE i \in 1..Len(head) :
                 head[i] = " " /\ \A j \in 1..(i - 1) : head[j] # " "
      list == Split(SubSeq(head, first + 1, Len(head)), ", ")
      parsed == [i \in 1..Len(list) |->
                   LET halves == Split(list[i], " AS ")
                   IN  IF Len(halves) = 2
                       THEN [qualifier |-> Split(halves[1], ".")[1], alias |-> halves[2]]
                       ELSE [qualifier |-> <<>>, alias |-> <<>>]]
  IN  Filter(parsed, {c \in {parsed[i] : i \in 1..Len(parsed)} :
                        \E k \in 1..Len(aliases) : c.qualifier = aliases[k]})

\* the aliased columns the expansions request, in request order, each with
\* the join alias of its expansion
RequestedColumns(exps, aliases) ==
  Concat([k \in 1..Len(exps) |->
            LET spec == IF exps[k].kind = "expand" THEN exps[k].expand ELSE exps[k].inline
                leaves == Filter(spec, {c \in {spec[i] : i \in 1..Len(spec)} : HasRef(c)})
            IN  [i \in 1..Len(leaves) |->
                   [qualifier |-> aliases[k],
                    alias |-> quoteIdentifier(
                                IF exps[k].kind = "expand"
                                THEN ExpandAlias(exps[k].ref[1], leaves[i].ref[Len(leaves[i].ref)])
                                ELSE InlineAlias(exps[k].ref[1], leaves[i]))]]])

\* C10: in a SELECT with several expansions every expansion has its own
\* join alias and exactly one LEFT JOIN, and the joins and the aliased
\* expansion columns stand in the SQL in the order of the request.
C10_JoinsInRequestOrder ==
  \A c \in ExpandingCalls :
    LET sql == clog[c].result.sql
        exps == ExpansionsOf(clog[c].query.columns)
        joins == JoinTextsIn(sql)
        aliases == [k \in 1..Len(joins) |-> AliasOfJoin(joins[k])]
        base == IF clog[c].query.from.as # <<>> THEN clog[c].query.from.as ELSE <<"base">>
    IN  /\ Len(joins) = Len(exps)
        /\ \A j, k \in 1..Len(aliases) : j # k => aliases[j] # aliases[k]
        /\ \A k \in 1..Len(joins) :
             LeftOfCondition(joins[k]) =
               base \o <<".">> \o quoteIdentifier(exps[k].ref[1] \o <<"_", "I", "D">>)
        /\ AliasedColumnsIn(sql, aliases) = RequestedColumns(exps, aliases)

\* a SELECT with three columns, two of them expansions of different
\* associations, has been compiled
C10_Witness ==
  \E c \in ExpandingCalls :
    LET exps == ExpansionsOf(clog[c].query.columns)
    IN  /\ Len(clog[c].query.columns) = 3
        /\ Len(exps) = 2
        /\ exps[1].kind = "expand" /\ exps[2].kind = "expand"
        /\ exps[1].ref # exps[2].ref
        /\ Count(clog[c].result.sql, "LEFT JOIN ") = 2

KeySet(entry) == {entry[i][1] : i \in 1..Len(entry)}

\* the calls that compiled a batch insert whose records do not all have the
\* key set of the first record
MismatchedInserts ==
  {i \in 1..Len(clog) :
     /\ clog[i].query.kind = "INSERT"
     /\ "entries" \in clog[i].query.present
     /\ \E e \in 1..Len(clog[i].query.entries) :
          KeySet(clog[i].query.entries[e]) # KeySet(clog[i].query.entries[1])}

\* C5: a batch insert whose records do not all have the key set of the
\* first record fails with an error; no INSERT is emitted for it.
C5_MismatchedKeysFail ==
  \A i \in MismatchedInserts : clog[i].result.error # ""

\* the to-one expansions of the reshaped SELECT that request at least one
\* leaf column
ReshapedExpansions ==
  IF reshapeIn = <<>> THEN {}
  ELSE {col \in {clog[1].query.columns[i] : i \in 1..Len(clog[1].query.columns)} :
          col.kind = "expand" /\ col.expand # <<>>}

\* the leaf columns an expansion requests
LeavesOf(col) == {col.expand[i].ref[Len(col.expand[i].ref)] : i \in 1..Len(col.expand)}

\* C2: reshaping a row of a SELECT with a to-one expansion of a over the
\* leaf columns c1..cn yields a -> null when all values a_c1..a_cn are null
\* and a -> {c1: v1, ..., cn: vn} otherwise, and removes a_c1..a_cn from the
\* top level of the row.
C2_ExpandRoundTrip ==
  \A col \in ReshapedExpansions :
    LET a == col.ref[1]
        row == reshapeIn[1]
        out == reshapeOut[1]
        aliased == [c \in LeavesOf(col) |-> row[ExpandAlias(a, c)]]
    IN  /\ a \in DOMAIN out
        /\ out[a] = IF \A c \in LeavesOf(col) : aliased[c] = Null
                    THEN Null ELSE ObjVal(aliased)
        /\ \A c \in LeavesOf(col) : ExpandAlias(a, c) \notin DOMAIN out

\* the plain columns of the reshaped SELECT, by the names they have in the
\* row, without those that share their name with the alias of a leaf of an
\* expansion
ReshapedPlainNames ==
  IF reshapeIn = <<>> \/ ~HasExpansions(clog[1].query.columns) THEN {}
  ELSE LET cols == clog[1].query.columns
           named(kind) == UNION {OutputNamesOf(cols[i]) :
                                   i \in {j \in 1..Len(cols) : cols[j].kind = kind}}
       IN  named("ref") \ named("expand")

\* the values a reshaped row holds, at the top level and in nested objects
ValuesIn(out) ==
  UNION {IF out[k] \in RowValues THEN {out[k]} ELSE {out[k].f[fd] : fd \in DOMAIN out[k].f} :
           k \in DOMAIN out}

\* C29: reshaping leaves every plain column of the SELECT a top-level field
\* with its name and value, whatever its name, and every value of the input
\* row that is not null is found in the reshaped row.
C29_PlainColumnsKept ==
  reshapeIn # <<>> =>
    /\ \A k \in ReshapedPlainNames :
         /\ k \in DOMAIN reshapeOut[1]
         /\ reshapeOut[1][k] = reshapeIn[1][k]
    /\ \A k \in DOMAIN reshapeIn[1] :
         reshapeIn[1][k] # Null => reshapeIn[1][k] \in ValuesIn(reshapeOut[1])

RECURSIVE ExpansionNodes(_)
\* the number of expansions a column list requests at all nesting levels
ExpansionNodes(columns) ==
  IF columns = <<>> THEN 0
  ELSE (IF columns[1].kind = "expand" THEN 1 + ExpansionNodes(columns[1].expand)
        ELSE IF columns[1].kind = "inline" THEN 1 + ExpansionNodes(columns[1].inline)
        ELSE 0)
         + ExpansionNodes(Tail(columns))

\* the calls that compiled a SELECT with an expansion that requests a
\* further expansion
NestedCalls ==
  {c \in ExpandingCalls :
     ExpansionNodes(clog[c].query.columns) > Len(ExpansionsOf(clog[c].query.columns))}

\* C11: every nesting level of an expansion adds one join and one join
\* alias: the compiled SELECT has as many LEFT JOINs, with pairwise
\* different aliases, as the column list has expansions at all levels.
C11_NestedExpansionJoins ==
  \A c \in ExpandingCalls :
    LET joins == JoinTextsIn(clog[c].result.sql)
    IN  /\ Len(joins) = ExpansionNodes(clog[c].query.columns)
        /\ \A j, k \in 1..Len(joins) :
             j # k => AliasOfJoin(joins[j]) # AliasOfJoin(joins[k])

RECURSIVE PathRefsOf(_)
\* the multi-segment references of a predicate, at all levels
PathRefsOf(xpr) ==
  IF xpr = <<>> THEN {}
  ELSE LET e == xpr[1]
           here == CASE e.kind = "ref" -> IF Len(e.ref) >= 2 THEN {e.ref} ELSE {}
                     [] e.kind = "func" -> PathRefsOf(e.args)
                     [] e.kind = "xpr" -> PathRefsOf(e.xpr)
                     [] e.kind = "list" -> PathRefsOf(e.list)
                     [] OTHER -> {}
       IN  here \cup PathRefsOf(Tail(xpr))

\* the calls that compiled a SELECT whose WHERE predicate holds a path
\* reference
PathInWhereCalls ==
  {c \in 1..Len(clog) :
     /\ clog[c].query.kind = "SELECT"
     /\ clog[c].result.error = ""
     /\ PathRefsOf(clog[c].query.where) # {}}

\* C12: a path reference in the WHERE predicate makes the compiled SELECT
\* join the target of the association with an INNER JOIN; the LEFT JOINs of
\* the statement are those of its expansions only.
C12_WherePathInnerJoin ==
  \A c \in PathInWhereCalls :
    LET sql == clog[c].result.sql
    IN  /\ Count(sql, "INNER JOIN ") >= Cardinality(PathRefsOf(clog[c].query.where))
        /\ Count(sql, "LEFT JOIN ") = ExpansionNodes(clog[c].query.columns)

\* the inline expansions of the reshaped SELECT
ReshapedInlines ==
  IF reshapeIn = <<>> THEN {}
  ELSE {col \in {clog[1].query.columns[i] : i \in 1..Len(clog[1].query.columns)} :
          col.kind = "inline"}

\* C13: after reshaping, every column of an inline expansion is a top-level
\* field of the row under its flat alias, with the value it had.
C13_InlineStaysFlat ==
  \A col \in ReshapedInlines :
    \A i \in 1..Len(col.inline) :
      LET alias == InlineAlias(col.ref[1], col.inline[i])
      IN  /\ alias \in DOMAIN reshapeOut[1]
          /\ reshapeOut[1][alias] = reshapeIn[1][alias]

\* the pieces that open a clause of a SELECT statement, with the place of
\* the clause in the statement
ClauseRank ==
  ("SELECT" :> 1) @@ (" DISTINCT" :> 2) @@ (" FROM " :> 3) @@ ("LEFT JOIN " :> 4)
    @@ (" WHERE " :> 5) @@ (" GROUP BY " :> 6) @@ (" HAVING " :> 7)
    @@ ("ORDER BY " :> 8) @@ ("LIMIT " :> 9) @@ ("OFFSET " :> 10)

\* the positions of the clause openers in a statement
ClausesIn(sql) == {i \in 1..Len(sql) : sql[i] \in DOMAIN ClauseRank}

\* the calls that compiled a SELECT
SelectCalls ==
  {c \in 1..Len(clog) : clog[c].query.kind = "SELECT" /\ clog[c].result.error = ""}

\* C15: the compiled SELECT has its clauses in the order SELECT, DISTINCT,
\* columns, FROM, joins, WHERE, GROUP BY, HAVING, ORDER BY, LIMIT, OFFSET;
\* every clause stands at most once (one join per expansion) and only when
\* the tree supplies a non-empty value for it.
C15_ClauseOrder ==
  \A c \in SelectCalls :
    LET q == clog[c].query
        sql == clog[c].result.sql
        marks == ClausesIn(sql)
        has(piece) == Count(sql, piece) > 0
        from == CHOOSE i \in 1..Len(sql) : sql[i] = " FROM "
    IN  /\ sql[1] = "SELECT"
        /\ Count(sql, "SELECT") = 1 /\ Count(sql, " FROM ") = 1
        /\ \A i, j \in marks :
             i < j => \/ ClauseRank[sql[i]] < ClauseRank[sql[j]]
                      \/ sql[i] = "LEFT JOIN " /\ sql[j] = "LEFT JOIN "
        /\ \E i \in 2..(from - 1) : sql[i] \notin DOMAIN ClauseRank
        /\ from < Len(sql) /\ sql[from + 1] \notin DOMAIN ClauseRank
        /\ has(" DISTINCT") => q.distinct
        /\ has("LEFT JOIN ") => HasExpansions(q.columns)
        /\ has(" WHERE ") => q.where # <<>>
        /\ has(" GROUP BY ") => q.groupBy # <<>>
        /\ has(" HAVING ") => q.having # <<>>
        /\ has("ORDER BY ") => q.orderBy # <<>>
        /\ has("LIMIT ") => q.limit.present /\ q.limit.rows.set
        /\ has("OFFSET ") => q.limit.present /\ q.limit.offset.set

\* a SELECT DISTINCT with an expansion, WHERE, GROUP BY, HAVING, ORDER BY,
\* rows and offset has been compiled, and every clause is in its text
C15_Witness ==
  \E c \in SelectCalls :
    LET q == clog[c].query
    IN  /\ q.distinct /\ HasExpansions(q.columns)
        /\ q.where # <<>> /\ q.groupBy # <<>> /\ q.having # <<>> /\ q.orderBy # <<>>
        /\ q.limit.present /\ q.limit.rows.set /\ q.limit.offset.set
        /\ Cardinality(ClausesIn(clog[c].result.sql)) = 10

\* the values a statement has to bind, in the order of its placeholders:
\* for UPDATE the SET values and then those of WHERE, for SELECT those of
\* WHERE and then those of HAVING, for INSERT the values of the rows
ExpectedParams(cqn, result) ==
  CASE cqn.kind = "UPDATE" ->
         [i \in 1..Len(cqn.data) |-> cqn.data[i][2]] \o BoundValuesOf(cqn.where)
    [] cqn.kind = "DELETE" -> BoundValuesOf(cqn.where)
    [] cqn.kind = "SELECT" -> BoundValuesOf(cqn.where) \o BoundValuesOf(cqn.having)
    [] OTHER -> result.params

\* C28: a statement cqnToSQL returns has as many ? placeholders as
\* parameters, and the parameters are the values to bind in the order of
\* the placeholders: for UPDATE the SET values before the WHERE values, for
\* SELECT the WHERE values before the HAVING values.
C28_PlaceholdersMatchParams ==
  \A c \in 1..Len(clog) :
    clog[c].result.error = "" =>
      /\ Count(clog[c].result.sql, "?") = Len(clog[c].result.params)
      /\ clog[c].result.params = ExpectedParams(clog[c].query, clog[c].result)

RECURSIVE LiteralColumnsOf(_)
\* the values of the literal columns of a column list that are not null, in
\* the order of the list
LiteralColumnsOf(columns) ==
  IF columns = <<>> THEN <<>>
  ELSE (IF columns[1].kind = "val" /\ columns[1].val # Null
        THEN <<columns[1].val>> ELSE <<>>)
         \o LiteralColumnsOf(Tail(columns))

\* C30: every literal column of a SELECT list that is not null is rendered
\* as a ? placeholder and its value appended to the parameter list, before
\* the values of the predicates.
C30_LiteralColumnsBound ==
  \A c \in SelectCalls :
    LET q == clog[c].query
        lits == LiteralColumnsOf(q.columns)
    IN  /\ Count(clog[c].result.sql, "?")
             >= Len(lits) + Len(BoundValuesOf(q.where)) + Len(BoundValuesOf(q.having))
        /\ Len(clog[c].result.params) >= Len(lits)
        /\ SubSeq(clog[c].result.params, 1, Len(lits)) = lits

(***************************************************************************)
(* Errors (utils/errors.ts)                                                *)
(*                                                                         *)
(* An error value is a record: instance is "SnowflakeError", "Error" or    *)
(* "object" (a thrown object literal); code, sqlState and statusCode are   *)
(* its own properties ("", <<>> and 0 when undefined); response is TRUE    *)
(* when it has a response property, whose status and body fields follow.   *)
(***************************************************************************)
ErrorValue(instance, code, sqlState, statusCode, response, status, dataCode, dataSqlState) ==
  [instance |-> instance, code |-> code, sqlState |-> sqlState,
   statusCode |-> statusCode, response |-> response, status |-> status,
   dataCode |-> dataCode, dataSqlState |-> dataSqlState]

NoError == ErrorValue("none", "", <<>>, 0, FALSE, 0, "", <<>>)

\* new SnowflakeError(message, code, sqlState, statusCode)
SnowflakeError(code, sqlState, statusCode) ==
  ErrorValue("SnowflakeError", code, sqlState, statusCode, FALSE, 0, "", <<>>)

\* the object makeRequest throws for a response that is not ok
HttpFailure(status, dataCode, dataSqlState) ==
  ErrorValue("object", "", <<>>, 0, TRUE, status, dataCode, dataSqlState)

\* an Error thrown by fetch or by the runtime, with or without a code
RuntimeError(code) == ErrorValue("Error", code, <<>>, 0, FALSE, 0, "", <<>>)

\* sqlState.substring(0, 2); a SQLSTATE is a sequence of characters
StateClass(sqlState) == SubSeq(sqlState, 1, IF Len(sqlState) < 2 THEN Len(sqlState) ELSE 2)

mapSQLStateToHTTP(sqlState) ==
  CASE StateClass(sqlState) = <<"0", "2">> -> 404
    [] StateClass(sqlState) = <<"2", "3">> -> 409
    [] StateClass(sqlState) = <<"2", "8">> -> 401
    [] StateClass(sqlState) = <<"4", "2">> -> 400
    [] StateClass(sqlState) = <<"5", "3">> -> 503
    [] StateClass(sqlState) = <<"0", "8">> -> 503
    [] OTHER -> 500

normalizeError(error) ==
  IF error.instance = "SnowflakeError" THEN error
  ELSE IF error.code # "" /\ error.sqlState # <<>>
  THEN SnowflakeError(error.code, error.sqlState, mapSQLStateToHTTP(error.sqlState))
  ELSE IF error.response
  THEN SnowflakeError(IF error.dataCode # "" THEN error.dataCode ELSE "SNOWFLAKE_API_ERROR",
                      error.dataSqlState, error.status)
  ELSE error

\* isRetryableError looking at the status of the response, from 400 on
isRetryableError_anyStatus(error) ==
  \/ error.response /\ error.status >= 400
  \/ error.code = "ECONNREFUSED"
  \/ error.code = "ETIMEDOUT"

isRetryableError(error) ==
  \/ /\ error.instance = "SnowflakeError"
     /\ \/ error.statusCode = 429
        \/ error.statusCode # 0 /\ error.statusCode >= 500
  \/ error.code = "ECONNREFUSED"
  \/ error.code = "ETIMEDOUT"

(***************************************************************************)
(* SQL API client (client/sqlapi.ts): execute and its retry loop           *)
(***************************************************************************)
maxRetries == 3

retryDelay == 1000

RECURSIVE Pow2(_)
\* Math.pow(2, n)
Pow2(n) == IF n = 0 THEN 1 ELSE 2 * Pow2(n - 1)

\* what one call of makeRequest can end in: a response with or without
\* data, or one of the errors it throws
HttpStatuses == {400, 401, 404, 409, 422, 429, 500, 503}

RequestFailures ==
  {HttpFailure(st, dc, ss) : st \in HttpStatuses,
                             dc \in {"", "002003"}, ss \in {<<>>, <<"4", "2", "S", "0", "2">>}}
  \cup {RuntimeError(c) : c \in {"ECONNREFUSED", "ETIMEDOUT", ""}}

ApiInit ==
  /\ apiPc = "idle"
  /\ attempt = 0
  /\ requests = 0
  /\ delays = <<>>
  /\ lastError = NoError
  /\ apiOutcome = NoError
  /\ answered = "none"

\* execute is called: getAuthToken returns a token and the loop is entered,
\* or it throws, outside the try block
ApiExecute ==
  /\ apiPc \in {"idle", "returned", "thrown"}
  /\ attempt' = 0
  /\ requests' = 0
  /\ delays' = <<>>
  /\ lastError' = NoError
  /\ answered' = "none"
  /\ \/ apiPc' = "try" /\ apiOutcome' = NoError
     \/ apiPc' = "thrown" /\ apiOutcome' = RuntimeError("")
  /\ UNCHANGED <<filterVars, compileVars, txVars, utilVars, readVars, sdkVars>>

\* the catch block retrying a retryable error whatever the attempt
ApiCatch_unbounded(error) ==
  /\ lastError' = error
  /\ IF isRetryableError(error)
     THEN /\ apiPc' = "sleep"
          /\ delays' = Append(delays, retryDelay * Pow2(attempt))
          /\ apiOutcome' = NoError
     ELSE /\ apiPc' = "thrown"
          /\ apiOutcome' = normalizeError(error)
          /\ UNCHANGED delays

\* the catch block of execute for the error caught at this attempt
ApiCatch(error) ==
  /\ lastError' = error
  /\ IF isRetryableError(error) /\ attempt < maxRetries
     THEN /\ apiPc' = "sleep"
          /\ delays' = Append(delays, retryDelay * Pow2(attempt))
          /\ apiOutcome' = NoError
     ELSE /\ apiPc' = "thrown"
          /\ apiOutcome' = normalizeError(error)
          /\ UNCHANGED delays

\* one pass through the try block: makeRequest answers with data
ApiRequestSucceeds ==
  /\ apiPc = "try"
  /\ requests' = requests + 1
  /\ apiPc' = "returned"
  /\ answered' = "data"
  /\ UNCHANGED <<attempt, delays, lastError, apiOutcome>>
  /\ UNCHANGED <<filterVars, compileVars, txVars, utilVars, readVars, sdkVars>>

\* makeRequest answers without data: `throw new Error('No data ...')` inside
\* the try block
ApiRequestNoData ==
  /\ apiPc = "try"
  /\ requests' = requests + 1
  /\ answered' = "empty"
  /\ ApiCatch(RuntimeError(""))
  /\ UNCHANGED attempt
  /\ UNCHANGED <<filterVars, compileVars, txVars, utilVars, readVars, sdkVars>>

\* makeRequest throws
ApiRequestFails ==
  /\ apiPc = "try"
  /\ requests' = requests + 1
  /\ answered' = "failed"
  /\ \E error \in RequestFailures : ApiCatch(error)
  /\ UNCHANGED attempt
  /\ UNCHANGED <<filterVars, compileVars, txVars, utilVars, readVars, sdkVars>>

\* the sleep ends: continue, attempt++
ApiWake ==
  /\ apiPc = "sleep"
  /\ apiPc' = "try"
  /\ attempt' = attempt + 1
  /\ UNCHANGED <<requests, delays, lastError, apiOutcome, answered>>
  /\ UNCHANGED <<filterVars, compileVars, txVars, utilVars, readVars, sdkVars>>

ApiNext ==
  \/ ApiExecute
  \/ ApiRequestSucceeds
  \/ ApiRequestNoData
  \/ ApiRequestFails
  \/ ApiWake

(***************************************************************************)
(* Properties of the retry loop                                            *)
(***************************************************************************)
\* a response with a 4xx status other than 429: the backend rejected the
\* statement (syntax, constraint, not found, unauthorized)
IsSemanticFailure(error) ==
  error.response /\ error.status >= 400 /\ error.status < 500 /\ error.status # 429

\* a rate-limit or server-side response, or a refused or timed-out
\* connection
IsTransientFailure(error) ==
  \/ error.response /\ (error.status = 429 \/ error.status >= 500)
  \/ error.code \in {"ECONNREFUSED", "ETIMEDOUT"}

\* C7: a request that failed with a semantic SQL error (a 4xx response other
\* than 429) is not retried: execute has thrown the normalized error, the
\* request was made once (one request per pass of the loop) and no delay
\* was slept after it.
C7_SemanticErrorNotRetried ==
  IsSemanticFailure(lastError) =>
    /\ apiPc = "thrown"
    /\ apiOutcome = normalizeError(lastError)
    /\ apiOutcome.instance = "SnowflakeError"
    /\ apiOutcome.statusCode = lastError.status
    /\ requests = attempt + 1
    /\ Len(delays) = attempt

\* the first request of a call was answered with 404 and execute threw
C7_Witness ==
  /\ apiPc = "thrown"
  /\ lastError.response
  /\ lastError.status = 404
  /\ requests = 1

\* C8: a request that failed with a transient error while retries are left
\* is retried, not surfaced, and the delays slept grow as 1000, 2000, 4000.
C8_TransientErrorRetried ==
  /\ (IsTransientFailure(lastError) /\ attempt < maxRetries) => apiPc # "thrown"
  /\ \A i \in 1..Len(delays) : delays[i] = 1000 * Pow2(i - 1)

\* C27: a call of execute makes at most maxRetries + 1 = 4 requests and
\* ends: it returns only after a response with data, which is the first
\* response of the call that did not fail, and when it throws after a
\* request it throws the normalized error of the attempt that failed last.
C27_ExecuteTerminates ==
  /\ [](/\ requests <= maxRetries + 1
        /\ apiPc = "returned" =>
             /\ answered = "data"
             /\ requests = attempt + 1
             /\ Len(delays) = attempt
        /\ (apiPc = "thrown" /\ requests > 0) =>
             /\ answered \in {"empty", "failed"}
             /\ apiOutcome = normalizeError(lastError))
  /\ (apiPc \in {"try", "sleep"}) ~> (apiPc \in {"returned", "thrown"})

\* a call has returned data at its fourth request, after three retries
C27_Witness ==
  /\ apiPc = "returned"
  /\ requests = maxRetries + 1
  /\ answered = "data"

(***************************************************************************)
(* Transactions of SnowflakeService (begin, commit, rollback, disconnect)  *)
(*                                                                         *)
(* mode is "sqlapi" when init created the SQL API client and "sdk" when it *)
(* created the SDK client.  In SDK mode a call forwards its statement and  *)
(* awaits the driver; it continues when the driver completes it.  session  *)
(* is the session of the connection at the database: whether a transaction *)
(* is open in it, and the statement it executed last with what it found.   *)
(***************************************************************************)
MaxSent == 3

Completed(op, threw, logged, forwarded) ==
  [op |-> op, threw |-> threw, logged |-> logged, forwarded |-> forwarded]

NewSession == [open |-> FALSE, stmt |-> "", wasOpen |-> FALSE]

TxInit ==
  /\ mode \in {"sqlapi", "sdk"}
  /\ inTransaction = FALSE
  /\ sent = <<>>
  /\ waiting = <<>>
  /\ lastCall = Completed("none", FALSE, "", FALSE)
  /\ session = NewSession

StatementOf(op) ==
  CASE op = "begin" -> "BEGIN TRANSACTION"
    [] op = "commit" -> "COMMIT"
    [] op = "rollback" -> "ROLLBACK"

\* begin() throwing when there is no SDK client
Begin_throwsUnsupported ==
  /\ IF inTransaction
     THEN /\ lastCall' = Completed("begin", FALSE, "warn", FALSE)
          /\ UNCHANGED <<mode, inTransaction, sent, waiting, session>>
     ELSE IF mode = "sdk"
     THEN /\ Len(sent) < MaxSent
          /\ sent' = Append(sent, StatementOf("begin"))
          /\ waiting' = Append(waiting, "begin")
          /\ UNCHANGED <<mode, inTransaction, lastCall, session>>
     ELSE /\ lastCall' = Completed("begin", TRUE, "error", FALSE)
          /\ UNCHANGED <<mode, inTransaction, sent, waiting, session>>
  /\ UNCHANGED <<filterVars, compileVars, apiVars, utilVars, readVars, sdkVars>>

\* begin() up to its first await, or to its end when it does not await
Begin ==
  /\ IF inTransaction
     THEN /\ lastCall' = Completed("begin", FALSE, "warn", FALSE)
          /\ UNCHANGED <<mode, inTransaction, sent, waiting, session>>
     ELSE IF mode = "sdk"
     THEN /\ Len(sent) < MaxSent
          /\ sent' = Append(sent, StatementOf("begin"))
          /\ waiting' = Append(waiting, "begin")
          /\ UNCHANGED <<mode, inTransaction, lastCall, session>>
     ELSE /\ lastCall' = Completed("begin", FALSE, "warn", FALSE)
          /\ UNCHANGED <<mode, inTransaction, sent, waiting, session>>
  /\ UNCHANGED <<filterVars, compileVars, apiVars, utilVars, readVars, sdkVars>>

\* commit() or rollback() up to its first await, or to its end
End(op) ==
  /\ IF ~inTransaction
     THEN /\ lastCall' = Completed(op, FALSE, "", FALSE)
          /\ UNCHANGED <<mode, inTransaction, sent, waiting, session>>
     ELSE IF mode = "sdk"
     THEN /\ Len(sent) < MaxSent
          /\ sent' = Append(sent, StatementOf(op))
          /\ waiting' = Append(waiting, op)
          /\ UNCHANGED <<mode, inTransaction, lastCall, session>>
     ELSE /\ lastCall' = Completed(op, FALSE, "", FALSE)
          /\ UNCHANGED <<mode, inTransaction, sent, waiting, session>>
  /\ UNCHANGED <<filterVars, compileVars, apiVars, utilVars, readVars, sdkVars>>

Commit == End("commit")

Rollback == End("rollback")

\* disconnect(): awaits the disconnect of the SDK client, or does nothing
\* when there is none
ServiceDisconnect ==
  /\ IF mode = "sdk"
     THEN /\ Len(waiting) < MaxSent
          /\ waiting' = Append(waiting, "disconnect")
          /\ UNCHANGED <<mode, inTransaction, sent, lastCall, session>>
     ELSE /\ lastCall' = Completed("disconnect", FALSE, "", FALSE)
          /\ UNCHANGED <<mode, inTransaction, sent, waiting, session>>
  /\ UNCHANGED <<filterVars, compileVars, apiVars, utilVars, readVars, sdkVars>>

\* what the session is after it executed the statement of op
Executed(op) ==
  [open |-> (op = "begin"), stmt |-> StatementOf(op), wasOpen |-> session.open]

\* the driver completes the statement of a waiting call without error: the
\* call sets the flag, logs at info level and returns
DriverSucceeds ==
  \E i \in 1..Len(waiting) :
    /\ waiting[i] # "disconnect"
    /\ waiting' = RemoveAt(waiting, i)
    /\ inTransaction' = (waiting[i] = "begin")
    /\ session' = Executed(waiting[i])
    /\ lastCall' = Completed(waiting[i], FALSE, "info", TRUE)
    /\ UNCHANGED <<mode, sent>>
    /\ UNCHANGED <<filterVars, compileVars, apiVars, utilVars, readVars, sdkVars>>

\* the driver completes it with an error: the call logs it and throws
DriverFails ==
  \E i \in 1..Len(waiting) :
    /\ waiting' = RemoveAt(waiting, i)
    /\ lastCall' = Completed(waiting[i], TRUE, "error", TRUE)
    /\ UNCHANGED <<mode, inTransaction, sent, session>>
    /\ UNCHANGED <<filterVars, compileVars, apiVars, utilVars, readVars, sdkVars>>

\* the driver has destroyed the connection, once no statement is in flight
\* on it: the client forgets it, the session is gone with its transaction,
\* and the next statement runs on a new connection
DriverDisconnects ==
  /\ waiting = <<"disconnect">>
  /\ waiting' = <<>>
  /\ session' = NewSession
  /\ lastCall' = Completed("disconnect", FALSE, "info", TRUE)
  /\ UNCHANGED <<mode, inTransaction, sent>>
  /\ UNCHANGED <<filterVars, compileVars, apiVars, utilVars, readVars, sdkVars>>

TxNext ==
  \/ Begin
  \/ Commit
  \/ Rollback
  \/ ServiceDisconnect
  \/ DriverSucceeds
  \/ DriverFails
  \/ DriverDisconnects

(***************************************************************************)
(* Properties of the transaction calls                                     *)
(***************************************************************************)
\* C9 as stated: in SQL API mode each of begin(), commit() and rollback()
\* completes without throwing, forwards no statement and logs a warning.
C9_UnsupportedWarns ==
  (mode = "sqlapi" /\ lastCall.op # "none") =>
    /\ ~lastCall.threw
    /\ ~lastCall.forwarded
    /\ sent = <<>>
    /\ lastCall.logged = "warn"

\* C9 as amended: in SQL API mode each of begin(), commit() and rollback()
\* completes without throwing and forwards no statement; begin() logs a
\* warning, commit() and rollback() log nothing.
C9_UnsupportedIsNoOp ==
  (mode = "sqlapi" /\ lastCall.op # "none") =>
    /\ ~lastCall.threw
    /\ ~lastCall.forwarded
    /\ sent = <<>>
    /\ inTransaction = FALSE
    /\ lastCall.op = "begin" => lastCall.logged = "warn"
    /\ lastCall.op \in {"commit", "rollback"} => lastCall.logged = ""

\* in SQL API mode a call of rollback() has completed
C9_Witness ==
  /\ mode = "sqlapi"
  /\ lastCall.op = "rollback"
  /\ ~lastCall.threw

\* C25: in SDK mode the session never executes a forwarded BEGIN
\* TRANSACTION while a transaction begun earlier is still open, and it
\* executes a forwarded COMMIT or ROLLBACK only while a transaction is open.
C25_NoNestedTransaction ==
  mode = "sdk" =>
    /\ session.stmt = "BEGIN TRANSACTION" => ~session.wasOpen
    /\ session.stmt \in {"COMMIT", "ROLLBACK"} => session.wasOpen

\* C26: in SDK mode, when the call that completed last is a begin() that
\* returned without error, a transaction is open in the session of the
\* current connection, also after a disconnect().
C26_BeginOpensTransaction ==
  (mode = "sdk" /\ lastCall.op = "begin" /\ ~lastCall.threw) => session.open

(***************************************************************************)
(* Calls of generateMerge, addTemporalConditions and quoteIdentifier       *)
(***************************************************************************)
MaxNameLen == 3

\* the sequences over S without repetition
InjectiveSeqs(S) ==
  {q \in SeqsUpTo(S, Cardinality(S)) : \A i, j \in 1..Len(q) : i # j => q[i] # q[j]}

\* the columns of the records merged: one that is not quoted, two that are
MergeColumns == {N_ID, N_t, N_k}

MergeValueOf(col) ==
  IF col = N_ID THEN StrVal(<<"x">>) ELSE IF col = N_t THEN NumVal(<<"7">>) ELSE Null

\* the records: every non-empty choice of the columns in every key order
MergeRecords ==
  {[i \in 1..Len(cols) |-> <<cols[i], MergeValueOf(cols[i])>>] :
     cols \in InjectiveSeqs(MergeColumns) \ {<<>>}}

\* the key lists of a record: every non-empty choice of its columns, the
\* whole record included
MergeKeysOf(data) == InjectiveSeqs({data[i][1] : i \in 1..Len(data)}) \ {<<>>}

\* the predicate texts decorated: none, one comparison, a conjunction
WhereClauses ==
  {<<>>,
   translateFilter(PriceFilter, <<>>).sql,
   translateFilter(PriceFilter \o <<OpTok(<<"a", "n", "d">>)>> \o HavingFilter, <<>>).sql}

\* validity fields whose names are quoted and whose names are not
TemporalFieldChoices ==
  {[validFrom |-> <<"v", "F">>, validTo |-> <<"v", "T">>],
   [validFrom |-> <<"V", "F">>, validTo |-> <<"V", "T">>]}

Instants == {<<>>, <<"2", "0", "2", "4">>, <<"2", "0", "2", "5">>}

TemporalQueries == [asOf : Instants, from : Instants, to : Instants]

NameChars == {"A", "a", "1", "_", "-", "\""}

\* names over NameChars, and reserved words in upper, lower and mixed case,
\* bare and wrapped in double quotes
Names ==
  SeqsUpTo(NameChars, MaxNameLen)
  \cup {<<"I", "N">>, <<"i", "n">>, <<"A", "s">>, <<"K", "E", "Y">>,
        <<"\"", "I", "N", "\"">>, <<"I", "N", "1">>, <<"I", "\"", "N">>}

\* the segments of the names qualified: plain, quoted, and the name of the
\* default database
NameSegments == {<<"T">>, <<"t">>, <<"D", "B">>, <<"X">>}

\* simple, two-part and three-part names
QualifiableNames ==
  {Join(parts, <<".">>) : parts \in UNION {[1..k -> NameSegments] : k \in {1, 2, 3}}}

\* credentials with and without a default database and schema
CredentialChoices ==
  [database : {<<>>, <<"D", "B">>}, schema : {<<>>, <<"s">>}]

UtilInit ==
  /\ ufn = "idle"
  /\ uargs = <<>>
  /\ uout = <<>>
  /\ uagain = <<>>

\* a call generateMerge(tableName, keys, data, credentials)
CallGenerateMerge ==
  /\ ufn = "idle"
  /\ \E data \in MergeRecords :
       \E keys \in MergeKeysOf(data) :
         /\ ufn' = "generateMerge"
         /\ uargs' = [tableName |-> N_T, keys |-> keys, data |-> data]
         /\ uout' = generateMerge(N_T, keys, data, Credentials)
  /\ UNCHANGED uagain
  /\ UNCHANGED <<filterVars, compileVars, apiVars, txVars, readVars, sdkVars>>

\* a call addTemporalConditions(whereClause, temporalFields, temporalQuery)
CallAddTemporalConditions ==
  /\ ufn = "idle"
  /\ \E w \in WhereClauses, f \in TemporalFieldChoices, q \in TemporalQueries :
       /\ ufn' = "addTemporalConditions"
       /\ uargs' = [whereClause |-> w, temporalFields |-> f, temporalQuery |-> q]
       /\ uout' = addTemporalConditions(w, f, q)
  /\ UNCHANGED uagain
  /\ UNCHANGED <<filterVars, compileVars, apiVars, txVars, readVars, sdkVars>>

\* a call quoteIdentifier(identifier)
CallQuoteIdentifier ==
  /\ ufn = "idle"
  /\ \E x \in Names :
       /\ ufn' = "quoteIdentifier"
       /\ uargs' = [identifier |-> x]
       /\ uout' = quoteIdentifier(x)
  /\ UNCHANGED uagain
  /\ UNCHANGED <<filterVars, compileVars, apiVars, txVars, readVars, sdkVars>>

\* a call qualifyName(name, credentials)
CallQualifyName ==
  /\ ufn = "idle"
  /\ \E name \in QualifiableNames, c \in CredentialChoices :
       /\ ufn' = "qualifyName"
       /\ uargs' = [name |-> name, credentials |-> c]
       /\ uout' = qualifyName(name, c)
  /\ UNCHANGED uagain
  /\ UNCHANGED <<filterVars, compileVars, apiVars, txVars, readVars, sdkVars>>

\* the errors the driver and the SQL API hand to the error utilities: a
\* driver error carries a code and a SQLSTATE
SqlStates ==
  {<<"0", "2", "0", "0", "0">>, <<"2", "3", "5", "0", "5">>, <<"2", "8", "0", "0", "0">>,
   <<"4", "2", "S", "0", "2">>, <<"5", "3", "2", "0", "0">>, <<"0", "8", "0", "0", "6">>,
   <<"2", "2", "0", "1", "2">>, <<"5", "7", "0", "1", "4">>}

DriverErrors == {ErrorValue("Error", "100051", ss, 0, FALSE, 0, "", <<>>) : ss \in SqlStates}

RawErrors == DriverErrors \cup RequestFailures

\* a call normalizeError(error)
CallNormalizeError ==
  /\ ufn = "idle"
  /\ \E error \in RawErrors :
       /\ ufn' = "normalizeError"
       /\ uargs' = [error |-> error]
       /\ uout' = normalizeError(error)
  /\ UNCHANGED uagain
  /\ UNCHANGED <<filterVars, compileVars, apiVars, txVars, readVars, sdkVars>>

\* a call isRetryableError(error) with an error as thrown or as
\* normalizeError returned it
CallIsRetryableError ==
  /\ ufn = "idle"
  /\ \E error \in RawErrors \cup {normalizeError(raw) : raw \in RawErrors} :
       /\ ufn' = "isRetryableError"
       /\ uargs' = [error |-> error]
       /\ uout' = isRetryableError(error)
  /\ UNCHANGED uagain
  /\ UNCHANGED <<filterVars, compileVars, apiVars, txVars, readVars, sdkVars>>

\* the name quoteIdentifier returned is passed to quoteIdentifier again, as
\* when a caller qualifies or aliases a name that is already normalized
QuoteAgain ==
  /\ ufn = "quoteIdentifier"
  /\ uagain = <<>>
  /\ uagain' = <<quoteIdentifier(uout)>>
  /\ UNCHANGED <<ufn, uargs, uout>>
  /\ UNCHANGED <<filterVars, compileVars, apiVars, txVars, readVars, sdkVars>>

\* the caller has taken the result
UtilReturn ==
  /\ ufn # "idle"
  /\ ufn' = "idle"
  /\ uargs' = <<>>
  /\ uout' = <<>>
  /\ uagain' = <<>>
  /\ UNCHANGED <<filterVars, compileVars, apiVars, txVars, readVars, sdkVars>>

UtilNext ==
  \/ CallGenerateMerge
  \/ CallAddTemporalConditions
  \/ CallQuoteIdentifier
  \/ CallQualifyName
  \/ CallNormalizeError
  \/ CallIsRetryableError
  \/ QuoteAgain
  \/ UtilReturn

(***************************************************************************)
(* Properties of the MERGE statement                                       *)
(***************************************************************************)
\* Reading a MERGE statement back: its lines
MergeLines(sql) == Split(sql, "\n")

\* the names `target.<name> = source.<name>` equates in the ON line
OnKeysIn(line) ==
  LET conds == Split(Tail(line), " AND ")
  IN  [i \in 1..Len(conds) |-> Split(conds[i], " = source.")[2]]

\* the names `<name> = source.<name>` assigns in the UPDATE line
SetColumnsIn(line) ==
  LET sets == Split(Tail(line), ", ")
  IN  [i \in 1..Len(sets) |-> Split(sets[i], " = source.")[1]]

\* the names in the column list of the INSERT line
InsertColumnsIn(line) == Split(Tail(Split(line, ") VALUES (")[1]), ", ")

\* the record's columns that are not keys, quoted, in the record's order
NonKeyColumns(data, keys) ==
  LET cols == [i \in 1..Len(data) |-> data[i][1]]
      rest == {i \in 1..Len(cols) : \A k \in 1..Len(keys) : keys[k] # cols[i]}
      nth(n) == CHOOSE i \in rest : Cardinality({j \in rest : j < i}) = n - 1
  IN  [n \in 1..Cardinality(rest) |-> quoteIdentifier(cols[nth(n)])]

\* C14: generateMerge returns one MERGE statement; its ON line equates
\* target and source on every key, its UPDATE line assigns exactly the
\* columns of the record that are not keys and is missing when there is
\* none, its INSERT line lists all columns of the record, and the parameters
\* are the values of the record in column order.
C14_MergeShape ==
  ufn = "generateMerge" =>
    LET data == uargs.data
        keys == uargs.keys
        lines == MergeLines(uout.sql)
        nonKeys == NonKeyColumns(data, keys)
        all == [i \in 1..Len(data) |-> quoteIdentifier(data[i][1])]
        on == lines[3]
        last == lines[Len(lines)]
    IN  /\ Count(uout.sql, "MERGE INTO ") = 1 /\ uout.sql[1] = "MERGE INTO "
        /\ on[1] = "ON "
        /\ OnKeysIn(on) = [i \in 1..Len(keys) |-> quoteIdentifier(keys[i])]
        /\ \A i \in 1..Len(keys) :
             Split(Tail(on), " AND ")[i] =
               <<"target.">> \o quoteIdentifier(keys[i]) \o <<" = source.">>
                 \o quoteIdentifier(keys[i])
        /\ IF nonKeys = <<>>
           THEN Len(lines) = 4 /\ Count(uout.sql, "WHEN MATCHED THEN UPDATE SET ") = 0
           ELSE /\ Len(lines) = 5
                /\ lines[4][1] = "WHEN MATCHED THEN UPDATE SET "
                /\ SetColumnsIn(lines[4]) = nonKeys
        /\ last[1] = "WHEN NOT MATCHED THEN INSERT ("
        /\ InsertColumnsIn(last) = all
        /\ uout.params = [i \in 1..Len(data) |-> data[i][2]]
        /\ Count(uout.sql, "?") = Len(data)

\* the record {t, ID, k} has been merged on the key ID, and a record has
\* been merged on all of its columns
C14_Witness ==
  /\ ufn = "generateMerge"
  /\ Len(uargs.data) = 3
  /\ uargs.keys = <<N_ID>>
  /\ uargs.data[1][1] = N_t
  /\ Count(uout.sql, "WHEN MATCHED THEN UPDATE SET ") = 1

(***************************************************************************)
(* Properties of the temporal decoration                                   *)
(***************************************************************************)
\* the text put in front of the temporal clause for the predicate P
WherePrefix(P) == IF P = <<>> THEN <<>> ELSE <<"(">> \o P \o <<")", " AND ">>

\* the temporal clause of a decorated predicate: what follows the prefix
TemporalClauseIn(out, P) == SubSeq(out, Len(WherePrefix(P)) + 1, Len(out))

\* C17: the decorated predicate is `(P) AND <temporal clause>` for a
\* non-empty predicate P, P itself unchanged, and the temporal clause alone
\* for the empty predicate: no empty parentheses, no leading AND.
C17_PredicateKept ==
  ufn = "addTemporalConditions" =>
    LET P == uargs.whereClause
        clause == TemporalClauseIn(uout, P)
    IN  /\ StartsWith(uout, WherePrefix(P))
        /\ clause # <<>>
        /\ clause[1] \notin {"(", ")", " AND "}
        /\ clause[Len(clause)] # " AND "
        /\ P = <<>> => Count(uout, "(") = 0 /\ uout[1] # " AND "

\* a conjunction has been decorated
C17_Witness ==
  /\ ufn = "addTemporalConditions"
  /\ Count(uargs.whereClause, "?") = 2
  /\ uout[1] = "("

\* the mode of a temporal query: as of an instant, overlapping a range
\* with both ends, as of now; a range with one end is none of the three
ModeOf(q) ==
  IF q.asOf # <<>> THEN "instant"
  ELSE IF q.from # <<>> /\ q.to # <<>> THEN "range"
  ELSE IF q.from = <<>> /\ q.to = <<>> THEN "now"
  ELSE "half"

C19_QuoteIsIdempotent ==
  (ufn = "quoteIdentifier" /\ uagain # <<>>) => uagain[1] = uout

\* a name with a double quote inside has been quoted, and quoted again
C19_Witness ==
  /\ ufn = "quoteIdentifier"
  /\ uagain # <<>>
  /\ uout # uargs.identifier
  /\ \E i \in 2..(Len(uargs.identifier) - 1) : uargs.identifier[i] = "\""

\* the name begins and ends with a double quote
Wrapped(x) == x # <<>> /\ x[1] = "\"" /\ x[Len(x)] = "\""

\* the name with every double quote doubled, in one pair of double quotes
QuotedForm(x) ==
  <<"\"">> \o Concat([i \in 1..Len(x) |->
                        IF x[i] = "\"" THEN <<"\"", "\"">> ELSE <<x[i]>>]) \o <<"\"">>

\* the conditions under which a name that is not wrapped is quoted: it is a
\* reserved word in some case, has a character outside [A-Z0-9_], or is not
\* its own upper-cased form
QuotingCondition(x) ==
  \/ ToUpperCase(x) \in RESERVED_WORDS
  \/ \E i \in 1..Len(x) : x[i] \notin UpperLetters \cup Digits \cup {"_"}
  \/ x # ToUpperCase(x)

\* C20 as stated: a name is quoted exactly when it is not wrapped in double
\* quotes and the quoting condition holds; every other name is returned
\* unchanged.
C20_QuotedExactlyWhen ==
  ufn = "quoteIdentifier" =>
    LET x == uargs.identifier
    IN  uout = IF ~Wrapped(x) /\ QuotingCondition(x) THEN QuotedForm(x) ELSE x

\* C20 amended: a name that begins with a digit is quoted as well.
C20_QuotedExactlyWhenOrDigitFirst ==
  ufn = "quoteIdentifier" =>
    LET x == uargs.identifier
    IN  uout = IF ~Wrapped(x) /\ (QuotingCondition(x) \/ (x # <<>> /\ x[1] \in Digits))
               THEN QuotedForm(x) ELSE x

\* a name of upper-case letters and digits that begins with a digit has
\* been passed and came back quoted
C20_Witness ==
  /\ ufn = "quoteIdentifier"
  /\ uargs.identifier = <<"1", "A">>
  /\ uout = <<"\"", "1", "A", "\"">>

\* the last n elements of a sequence
LastN(q, n) == SubSeq(q, Len(q) - n + 1, Len(q))

StatusOfClass(class) ==
  CASE class = <<"0", "2">> -> 404
    [] class = <<"2", "3">> -> 409
    [] class = <<"2", "8">> -> 401
    [] class = <<"4", "2">> -> 400
    [] class = <<"5", "3">> -> 503
    [] class = <<"0", "8">> -> 503
    [] OTHER -> 0

\* C23: an error that carries a code and a SQLSTATE is classified by the
\* class of the SQLSTATE (02 -> 404, 23 -> 409, 28 -> 401, 42 -> 400,
\* 53 -> 503, 08 -> 503), and an error that carries a SQLSTATE is retryable
\* only if its class is 53 or 08 or it is a rate-limit (429), refused or
\* timed-out transport error.
C23_ClassifiedRetryable ==
  /\ (ufn = "normalizeError" /\ uargs.error.code # "" /\ uargs.error.sqlState # <<>>
        /\ StatusOfClass(SubSeq(uargs.error.sqlState, 1, 2)) # 0) =>
       /\ uout.instance = "SnowflakeError"
       /\ uout.sqlState = uargs.error.sqlState
       /\ uout.statusCode = StatusOfClass(SubSeq(uargs.error.sqlState, 1, 2))
  /\ (ufn = "isRetryableError" /\ uout = TRUE /\ uargs.error.sqlState # <<>>) =>
       \/ SubSeq(uargs.error.sqlState, 1, 2) \in {<<"5", "3">>, <<"0", "8">>}
       \/ uargs.error.statusCode = 429
       \/ uargs.error.code \in {"ECONNREFUSED", "ETIMEDOUT"}

(***************************************************************************)
(* SnowflakeService.read with $count                                       *)
(*                                                                         *)
(* The database is the number of rows that satisfy the predicate and the   *)
(* joins of the query.  It answers a SELECT with the rows left by the      *)
(* OFFSET and LIMIT the statement text carries, and a row count over a     *)
(* subquery with the number of rows the subquery yields.  read is          *)
(* modelled for trees with select.one unset and executions that succeed.   *)
(***************************************************************************)
MaxRows == 8

RECURSIVE NumberOf(_)
\* the number a sequence of decimal digits denotes
NumberOf(ds) ==
  IF ds = <<>> THEN 0
  ELSE 10 * NumberOf(SubSeq(ds, 1, Len(ds) - 1))
         + (CHOOSE d \in 0..9 : DigitsOf(d) = <<ds[Len(ds)]>>)

\* the digits that follow the piece at position i of a statement
DigitsAfter(sql, i) ==
  LET stop == IF \E j \in (i + 1)..Len(sql) : sql[j] \notin Digits
              THEN CHOOSE j \in (i + 1)..Len(sql) :
                     sql[j] \notin Digits /\ \A k \in (i + 1)..(j - 1) : sql[k] \in Digits
              ELSE Len(sql) + 1
  IN  SubSeq(sql, i + 1, stop - 1)

\* the rows the database returns for a SELECT statement when total rows
\* satisfy its predicate and joins
NumberAfter(sql, keyword) ==
  NumberOf(DigitsAfter(sql, CHOOSE i \in 1..Len(sql) : sql[i] = keyword))

Least(a, b) == IF a < b THEN a ELSE b

Minus(a, b) == IF a > b THEN a - b ELSE 0

RowsAfterOffset(sql, total) ==
  IF Count(sql, "OFFSET ") = 0 THEN total ELSE Minus(total, NumberAfter(sql, "OFFSET "))

RowsReturned(sql, total) ==
  IF Count(sql, "LIMIT ") = 0 THEN RowsAfterOffset(sql, total)
  ELSE Least(RowsAfterOffset(sql, total), NumberAfter(sql, "LIMIT "))

\* the trees read: with and without WHERE, with every choice of the limit
ReadSelects ==
  {SelectWith(Select(FALSE, FromT, <<RefCol(<<N_t>>, <<>>)>>, w, <<>>), <<>>, o, l) :
     w \in {<<>>, PriceFilter}, o \in OrderByChoices, l \in LimitChoices}

NoRead ==
  [called |-> FALSE, query |-> [kind |-> "NONE"], count |-> FALSE, total |-> 0,
   sql |-> <<>>, params |-> <<>>, rows |-> 0, countSQL |-> <<>>, countParams |-> <<>>,
   hasCount |-> FALSE, dollarCount |-> 0]

ReadInit == rd = NoRead

\* what read leaves behind: r is the compiled statement, rows the number
\* of rows its execution returned and counted the answer to the count
\* statement
ReadOutcome(select, needsCount, total, r, rows, counted) ==
  [called |-> TRUE, query |-> select, count |-> needsCount, total |-> total,
   sql |-> r.sql, params |-> r.params, rows |-> rows,
   countSQL |-> IF needsCount THEN wrapWithCount(r.sql) ELSE <<>>,
   countParams |-> IF needsCount THEN r.params ELSE <<>>,
   hasCount |-> needsCount,
   dollarCount |-> IF needsCount THEN counted ELSE 0]

\* the answer of the database to the statement wrapWithCount builds: the
\* number of rows of the subquery
CountOf(sql, total) == RowsReturned(sql, total)

ReadCompiled(select, needsCount, total, r) ==
  ReadOutcome(select, needsCount, total, r,
              RowsReturned(r.sql, total), CountOf(r.sql, total))

\* read(query) for a query whose select.count is needsCount, with total
\* rows of the database satisfying its predicate and joins
Read ==
  /\ ~rd.called
  /\ \E select \in ReadSelects, needsCount \in BOOLEAN, total \in 0..MaxRows :
       rd' = ReadCompiled(select, needsCount, total, cqnToSQL(select, Credentials))
  /\ UNCHANGED <<filterVars, compileVars, apiVars, txVars, utilVars, sdkVars>>

\* the caller has taken the rows
ReadReturn ==
  /\ rd.called
  /\ rd' = NoRead
  /\ UNCHANGED <<filterVars, compileVars, apiVars, txVars, utilVars, sdkVars>>

ReadNext == Read \/ ReadReturn

\* C22: the $count of a count-requested SELECT is the number of rows that
\* satisfy the predicate and joins of the query, whatever its limit and
\* offset, and the count statement is the compiled SELECT as a subquery,
\* executed with the same parameters.
C22_CountIsTotal ==
  (rd.called /\ rd.count) =>
    /\ rd.hasCount
    /\ rd.dollarCount = rd.total
    /\ rd.countSQL = <<"SELECT COUNT(*) AS \"count\" FROM (">> \o rd.sql
                       \o <<") AS \"countQuery\"">>
    /\ rd.countParams = rd.params

(***************************************************************************)
(* SDK client (client/sdk.ts): connect, execute and disconnect             *)
(*                                                                         *)
(* A caller runs the synchronous part of a method in one step and then     *)
(* waits: for the promise connecting, for the continuation after `await    *)
(* this.connect()`, or for a callback of the driver.  Continuations of     *)
(* settled promises run before the next callback of the driver.            *)
(***************************************************************************)
MaxCallers == 2

Callers == 1..MaxCallers

Idle == [op |-> "none", pc |-> "idle", resolvedWhile |-> "", submittedWhile |-> ""]

SdkInit ==
  /\ connection = FALSE
  /\ connecting = FALSE
  /\ driver = "none"
  /\ callers = [c \in Callers |-> Idle]

isConnected == connection

\* a continuation is queued: no callback of the driver runs before it
ContinuationPending == \E c \in Callers : callers[c].pc = "afterConnect"

\* the synchronous part of connect() for caller c calling method op:
\* where the caller stands when connect returns its promise
ConnectCall(c, op) ==
  IF connection
  THEN /\ callers' = [callers EXCEPT ![c] =
            [op |-> op, pc |-> IF op = "connect" THEN "resolved" ELSE "afterConnect",
             resolvedWhile |-> driver, submittedWhile |-> ""]]
       /\ UNCHANGED <<connection, connecting, driver>>
  ELSE IF connecting
  THEN /\ callers' = [callers EXCEPT ![c] =
            [op |-> op, pc |-> "awaitConnecting", resolvedWhile |-> "", submittedWhile |-> ""]]
       /\ UNCHANGED <<connection, connecting, driver>>
  ELSE /\ connection' = TRUE
       /\ connecting' = TRUE
       /\ driver' = "pending"
       /\ callers' = [callers EXCEPT ![c] =
            [op |-> op, pc |-> "awaitConnecting", resolvedWhile |-> "", submittedWhile |-> ""]]

\* connect()
Connect(c) ==
  /\ callers[c].pc = "idle"
  /\ ConnectCall(c, "connect")
  /\ UNCHANGED <<filterVars, compileVars, apiVars, txVars, utilVars, readVars>>

\* execute(sql, binds) up to `await this.connect()`
Execute(c) ==
  /\ callers[c].pc = "idle"
  /\ ConnectCall(c, "execute")
  /\ UNCHANGED <<filterVars, compileVars, apiVars, txVars, utilVars, readVars>>

\* execute after the await: throws without a connection, else hands the
\* statement to the driver
ExecuteResume(c) ==
  /\ callers[c].pc = "afterConnect"
  /\ callers' = [callers EXCEPT ![c] =
       IF ~connection THEN [@ EXCEPT !.pc = "rejected"]
       ELSE [@ EXCEPT !.pc = "awaitStatement", !.submittedWhile = driver]]
  /\ UNCHANGED <<connection, connecting, driver>>
  /\ UNCHANGED <<filterVars, compileVars, apiVars, txVars, utilVars, readVars>>

\* the callback of connection.connect without an error: resolve()
DriverConnects ==
  /\ driver = "pending"
  /\ ~ContinuationPending
  /\ driver' = "connected"
  /\ callers' = [c \in Callers |->
       IF callers[c].pc = "awaitConnecting"
       THEN [callers[c] EXCEPT !.pc = IF callers[c].op = "connect" THEN "resolved"
                                      ELSE "afterConnect",
                               !.resolvedWhile = "connected"]
       ELSE callers[c]]
  /\ UNCHANGED <<connection, connecting>>
  /\ UNCHANGED <<filterVars, compileVars, apiVars, txVars, utilVars, readVars>>

\* the callback of connection.connect with an error: reject(...)
DriverRefuses ==
  /\ driver = "pending"
  /\ ~ContinuationPending
  /\ driver' = "none"
  /\ connection' = FALSE
  /\ connecting' = FALSE
  /\ callers' = [c \in Callers |->
       IF callers[c].pc = "awaitConnecting"
       THEN [callers[c] EXCEPT !.pc = "rejected"]
       ELSE callers[c]]
  /\ UNCHANGED <<filterVars, compileVars, apiVars, txVars, utilVars, readVars>>

\* the complete callback of a statement, with or without an error
DriverCompletes(c) ==
  /\ callers[c].pc = "awaitStatement"
  /\ ~ContinuationPending
  /\ \E pc \in {"resolved", "rejected"} :
       callers' = [callers EXCEPT ![c].pc = pc]
  /\ UNCHANGED <<connection, connecting, driver>>
  /\ UNCHANGED <<filterVars, compileVars, apiVars, txVars, utilVars, readVars>>

\* disconnect(): returns at once without a connection, else destroys it
Disconnect(c) ==
  /\ callers[c].pc = "idle"
  /\ callers' = [callers EXCEPT ![c] =
       [op |-> "disconnect", pc |-> IF ~connection THEN "resolved" ELSE "awaitDestroy",
        resolvedWhile |-> "", submittedWhile |-> ""]]
  /\ UNCHANGED <<connection, connecting, driver>>
  /\ UNCHANGED <<filterVars, compileVars, apiVars, txVars, utilVars, readVars>>

\* the callback of connection.destroy: without an error the client forgets
\* the connection
DriverDestroys(c) ==
  /\ callers[c].pc = "awaitDestroy"
  /\ ~ContinuationPending
  /\ \/ /\ driver = "connected"
        /\ driver' = "none"
        /\ connection' = FALSE
        /\ connecting' = FALSE
        /\ callers' = [callers EXCEPT ![c].pc = "resolved"]
     \/ /\ callers' = [callers EXCEPT ![c].pc = "rejected"]
        /\ UNCHANGED <<connection, connecting, driver>>
  /\ UNCHANGED <<filterVars, compileVars, apiVars, txVars, utilVars, readVars>>

\* the caller has taken the outcome of its call
SdkReturn(c) ==
  /\ callers[c].pc \in {"resolved", "rejected"}
  /\ callers' = [callers EXCEPT ![c] = Idle]
  /\ UNCHANGED <<connection, connecting, driver>>
  /\ UNCHANGED <<filterVars, compileVars, apiVars, txVars, utilVars, readVars>>

SdkNext ==
  \/ \E c \in Callers : Connect(c)
  \/ \E c \in Callers : Execute(c)
  \/ \E c \in Callers : ExecuteResume(c)
  \/ DriverConnects
  \/ DriverRefuses
  \/ \E c \in Callers : DriverCompletes(c)
  \/ \E c \in Callers : Disconnect(c)
  \/ \E c \in Callers : DriverDestroys(c)
  \/ \E c \in Callers : SdkReturn(c)

\* C24: no statement is handed to the driver before the connection attempt
\* has completed successfully, and no call of connect() is resolved before
\* the connection is established.
C24_ConnectedBeforeUse ==
  \A c \in Callers :
    /\ callers[c].submittedWhile # "" => callers[c].submittedWhile = "connected"
    /\ (callers[c].op = "connect" /\ callers[c].pc = "resolved") =>
         callers[c].resolvedWhile = "connected"

(***************************************************************************)
(* Specifications: one per component; the actions of a component leave the *)
(* state of the other components as constructed                            *)
(***************************************************************************)
vars == <<filterVars, compileVars, apiVars, txVars, utilVars, readVars, sdkVars>>

Init == FilterInit /\ CompileInit /\ ApiInit /\ TxInit /\ UtilInit /\ ReadInit /\ SdkInit

SpecFilter == Init /\ [][FilterNext]_vars

SpecCompile == Init /\ [][CompileNext]_vars

SpecApi == Init /\ [][ApiNext]_vars

\* the request of a call is answered or fails, and a sleep ends
SpecApiLive ==
  /\ Init
  /\ [][ApiNext]_vars
  /\ WF_vars(ApiRequestSucceeds \/ ApiRequestNoData \/ ApiRequestFails)
  /\ WF_vars(ApiWake)

SpecTx == Init /\ [][TxNext]_vars

SpecUtil == Init /\ [][UtilNext]_vars

SpecRead == Init /\ [][ReadNext]_vars

SpecSdk == Init /\ [][SdkNext]_vars

Next == FilterNext \/ CompileNext \/ ApiNext \/ TxNext \/ UtilNext \/ ReadNext \/ SdkNext

====
